---- MODULE Spec2Model ----
(***************************************************************************)
(* A model of lightmanager.c: the TCP command gateway of the jbmedia Light *)
(* Manager.  One thread per connection runs tcp_server_handle_client, which *)
(* reads a line, hands it to handle_input (tokenising with strtok, building *)
(* 8-byte frames, sending them with usb_send under mutex_usb) and writes    *)
(* the results back with write_to_client under mutex_socks.                 *)
(*                                                                         *)
(* Strings are sequences of one-character strings; the empty string NUL is *)
(* the C terminator.  Memory that several threads reach (strtok's saved    *)
(* pointer, the static frame buffers, housecode) is global state, and each *)
(* access to it is a step of its own.                                      *)
(***************************************************************************)
EXTENDS Integers, Sequences, FiniteSets, TLC

(***************************************************************************)
(* Characters (code 96, the back quote, stands in the table as "BQ")      *)
(***************************************************************************)
NUL == ""

Ascii ==
  << " ", "!", "\"", "#", "$", "%", "&", "'", "(", ")", "*", "+", ",", "-",
     ".", "/", "0", "1", "2", "3", "4", "5", "6", "7", "8", "9", ":", ";",
     "<", "=", ">", "?", "@", "A", "B", "C", "D", "E", "F", "G", "H", "I",
     "J", "K", "L", "M", "N", "O", "P", "Q", "R", "S", "T", "U", "V", "W",
     "X", "Y", "Z", "[", "\\", "]", "^", "_", "BQ", "a", "b", "c", "d", "e",
     "f", "g", "h", "i", "j", "k", "l", "m", "n", "o", "p", "q", "r", "s",
     "t", "u", "v", "w", "x", "y", "z", "{", "|", "}", "~" >>

OrdTab == [c \in {Ascii[i] : i \in 1..Len(Ascii)} |->
             31 + (CHOOSE i \in 1..Len(Ascii) : Ascii[i] = c)]

\* the character code of c, as the C code sees it
Ord(c) ==
  CASE c = NUL  -> 0
    [] c = "\t" -> 9
    [] c = "\n" -> 10
    [] c = "\r" -> 13
    [] OTHER    -> OrdTab[c]

Chr(n) == Ascii[n - 31]

isspace(c) == c \in {" ", "\t", "\n", "\r", "\f"}
isdigit(c) == Ord(c) >= 48 /\ Ord(c) <= 57
toupper(c) == IF Ord(c) >= 97 /\ Ord(c) <= 122 THEN Chr(Ord(c) - 32) ELSE c
tolower(c) == IF Ord(c) >= 65 /\ Ord(c) <= 90 THEN Chr(Ord(c) + 32) ELSE c

\* the character of string s at 1-based position i; NUL at and after its end
CharAt(s, i) == IF i >= 1 /\ i <= Len(s) THEN s[i] ELSE NUL

\* stricmp: the difference of the first pair of characters that differ after
\* folding 'A'..'Z' to lower case, 0 when the strings are equal
stricmp(s1, s2) ==
  LET n == (IF Len(s1) > Len(s2) THEN Len(s1) ELSE Len(s2)) + 1
      f(i) == Ord(tolower(CharAt(s1, i)))
      l(i) == Ord(tolower(CharAt(s2, i)))
      d == CHOOSE i \in 1..n : (f(i) # l(i) \/ f(i) = 0)
                               /\ \A k \in 1..(i-1) : f(k) = l(k) /\ f(k) # 0
  IN  f(d) - l(d)

cmdcompare(cs, ct) == stricmp(cs, ct)

\* the value from which on the model does not tell the results of strtol
\* apart: every range the program tests ends far below it
StrtolCap == 100000

\* strtol(ptr, NULL, 10): leading white space, an optional sign, then the
\* longest run of digits; 0 when there is no digit
RECURSIVE DigitsValue(_, _, _)
DigitsValue(s, i, acc) ==
  IF isdigit(CharAt(s, i))
    THEN DigitsValue(s, i + 1,
                     IF acc * 10 + (Ord(s[i]) - 48) > StrtolCap THEN StrtolCap
                     ELSE acc * 10 + (Ord(s[i]) - 48))
    ELSE acc

RECURSIVE SkipSpace(_, _)
SkipSpace(s, i) == IF isspace(CharAt(s, i)) THEN SkipSpace(s, i + 1) ELSE i

strtol(s) ==
  LET i == SkipSpace(s, 1)
  IN  IF CharAt(s, i) = "-" THEN 0 - DigitsValue(s, i + 1, 0)
      ELSE IF CharAt(s, i) = "+" THEN DigitsValue(s, i + 1, 0)
      ELSE DigitsValue(s, i, 0)

\* C integer division truncates toward zero
CDiv(a, b) == IF a >= 0 THEN a \div b ELSE 0 - ((0 - a) \div b)

\* the value of an int stored into an unsigned char
Byte(v) == v % 256

(***************************************************************************)
(* FS20 address codec                                                      *)
(***************************************************************************)
\* fs20toi: -1 for a string of odd length; otherwise every pair of characters
\* adds (c1-'0'-1)*4 + (c2-'0'-1) to the result shifted left by 4.  No
\* character is checked against '1'..'4'.
RECURSIVE fs20pairs(_, _, _)
fs20pairs(s, i, res) ==
  IF CharAt(s, i) = NUL \/ isspace(CharAt(s, i))
    THEN res
    ELSE fs20pairs(s, i + 2,
                   res * 16 + ((Ord(s[i]) - 48) - 1) * 4
                            + ((Ord(CharAt(s, i + 1)) - 48) - 1))

fs20toi(fs20) ==
  IF Len(fs20) % 2 # 0 THEN 0 - 1 ELSE fs20pairs(fs20, 1, 0)

\* itoa(v, buf, 4) for 0 <= v <= 15: the base-4 digits of v, no padding
itoa4(v) ==
  IF v < 4 THEN << Chr(48 + v) >>
           ELSE << Chr(48 + (v \div 4)), Chr(48 + (v % 4)) >>

\* itofs20 without separator: the four nibbles of code from bit 12 down, each
\* as two base-4 digits (a leading '0' below 4), every character then
\* incremented by one
itofs20(code) ==
  LET nib(shift) == (code \div shift) % 16
      two(v) == IF v < 4 THEN << "0" >> \o itoa4(v) ELSE itoa4(v)
      raw == two(nib(4096)) \o two(nib(256)) \o two(nib(16)) \o two(nib(1))
  IN  [i \in 1..Len(raw) |-> Chr(Ord(raw[i]) + 1)]

(***************************************************************************)
(* Memory and strtok                                                       *)
(*                                                                         *)
(* A pointer is <<b, i>>: position i (from 1) of buffer b, the input       *)
(* buffer buf[] on the stack of handler thread b.  A buffer holds NUL at   *)
(* and after the end of its sequence (it is zero-filled before each read). *)
(***************************************************************************)
NULL == << 0, 0 >>

CMD_DELIMITER == {",", ";", "&"}
TOKEN_DELIMITER == {" ", ",", ";", "\t", "\f"}

\* *p in memory m
Deref(m, p) == CharAt(m[p[1]], p[2])

\* the first position at or after p where the zero fill of the buffer is reached
BufEnd(s, p) == IF p[2] > Len(s) THEN p[2] ELSE Len(s) + 1

\* the C string that starts at p
CStr(m, p) ==
  LET s == m[p[1]]
      e == CHOOSE e \in p[2]..BufEnd(s, p) :
             CharAt(s, e) = NUL /\ \A k \in p[2]..(e - 1) : s[k] # NUL
  IN  SubSeq(s, p[2], e - 1)

\* p + strspn(p, delim)
SkipDelim(m, p, delim) ==
  LET s == m[p[1]]
  IN  << p[1], CHOOSE e \in p[2]..BufEnd(s, p) :
                 CharAt(s, e) \notin delim /\ \A k \in p[2]..(e - 1) : s[k] \in delim >>

\* p + strcspn(p, delim)
SkipToken(m, p, delim) ==
  LET s == m[p[1]]
  IN  << p[1], CHOOSE e \in p[2]..BufEnd(s, p) :
                 CharAt(s, e) \in (delim \cup {NUL})
                 /\ \A k \in p[2]..(e - 1) : s[k] \notin (delim \cup {NUL}) >>

\* strtok(str, delim) with the saved pointer o: the token returned, the
\* memory after the terminator has been written, and the new saved pointer.
\* The saved pointer is one static variable of the C library, shared by all
\* threads.
strtok(m, o, str, delim) ==
  LET s0 == IF str = NULL THEN o ELSE str
      s1 == SkipDelim(m, s0, delim)
      e  == SkipToken(m, s1, delim)
  IN  IF Deref(m, s0) = NUL THEN [tok |-> NULL, mem |-> m, olds |-> s0]
      ELSE IF Deref(m, s1) = NUL THEN [tok |-> NULL, mem |-> m, olds |-> s1]
      ELSE IF Deref(m, e) = NUL THEN [tok |-> s1, mem |-> m, olds |-> e]
      ELSE [tok  |-> s1,
            mem  |-> [m EXCEPT ![e[1]][e[2]] = NUL],
            olds |-> << e[1], e[2] + 1 >>]

\* rtrim, ltrim and trim on the line in a buffer
RECURSIVE rtrim(_)
rtrim(s) ==
  IF Len(s) > 1 /\ isspace(s[Len(s)]) THEN rtrim(SubSeq(s, 1, Len(s) - 1))
  ELSE IF Len(s) = 1 /\ isspace(s[1]) THEN << >>
  ELSE s

RECURSIVE ltrim(_)
ltrim(s) == IF Len(s) > 0 /\ isspace(s[1]) THEN ltrim(Tail(s)) ELSE s

trim(s) == ltrim(rtrim(s))


\* stristr: the 1-based position of the first occurrence of str2 in str1,
\* letters compared after toupper; 1 when str2 is empty, 0 for NULL
MatchAt(str1, cp, str2) ==
  \A k \in 1..Len(str2) : toupper(CharAt(str1, cp + k - 1)) = toupper(str2[k])

stristr(str1, str2) ==
  IF str2 = << >> THEN 1
  ELSE LET found == {cp \in 1..Len(str1) : MatchAt(str1, cp, str2)}
       IN  IF found = {} THEN 0
           ELSE CHOOSE cp \in found : \A c \in found : cp <= c

\* from_hex: no check that ch is a hexadecimal digit
from_hex(ch) == IF isdigit(ch) THEN Ord(ch) - 48 ELSE Ord(tolower(ch)) - 97 + 10

\* a | b on bytes
RECURSIVE BitOr(_, _)
BitOr(a, b) ==
  IF a = 0 THEN b
  ELSE IF b = 0 THEN a
  ELSE (IF a % 2 = 1 \/ b % 2 = 1 THEN 1 ELSE 0) + 2 * BitOr(a \div 2, b \div 2)

\* the character with code n; a code outside the alphabet of the model is
\* the opaque character "??"
CharOf(n) ==
  CASE n = 0  -> NUL
    [] n = 9  -> "\t"
    [] n = 10 -> "\n"
    [] n = 12 -> "\f"
    [] n = 13 -> "\r"
    [] n >= 32 /\ n <= 126 -> Chr(n)
    [] OTHER -> "??"

\* the char stored for "%xy": from_hex(x) << 4 | from_hex(y), cut to 8 bits
HexByte(x, y) == BitOr((from_hex(x) * 16) % 256, from_hex(y) % 256)

\* url_decode, the characters written to the new buffer: "%xy" gives one
\* char, a '%' with fewer than two characters after it gives nothing, '+'
\* gives a blank
RECURSIVE UrlBytes(_)
UrlBytes(str) ==
  IF str = << >> THEN << >>
  ELSE IF str[1] = "%"
    THEN IF Len(str) >= 3
           THEN << CharOf(HexByte(str[2], str[3])) >> \o UrlBytes(SubSeq(str, 4, Len(str)))
           ELSE UrlBytes(Tail(str))
  ELSE IF str[1] = "+" THEN << " " >> \o UrlBytes(Tail(str))
  ELSE << str[1] >> \o UrlBytes(Tail(str))

\* the C string of a char sequence: it ends before the first NUL
RECURSIVE UpToNul(_)
UpToNul(s) ==
  IF s = << >> \/ s[1] = NUL THEN << >> ELSE << s[1] >> \o UpToNul(Tail(s))

UrlKeep(str) == str

url_decode(str) == UpToNul(UrlBytes(str))

(***************************************************************************)
(* Constants of the program and bounds of the model                        *)
(***************************************************************************)
USB_MAX_RETRY == 5
EXIT_FAILURE == 1
HANDLE_INPUT_NOOK == 1
\* the bytes of the receive buffer of a connection
INPUT_BUFFER_MAXLEN == 1024
\* the entries of the array cmds of handle_input
MAX_CMDS == 500
HANDLE_INPUT_HTML == 2

\* the connection handler threads (one per accepted connection)
Handlers == {1, 2}

\* the number of input lines the clients send in one run, over all connections
MaxLines == 2
\* the reads of one recbuffer call that do not end a line
MaxReads == 1

Zero8 == << 0, 0, 0, 0, 0, 0, 0, 0 >>

(***************************************************************************)
(* The words of the command language                                       *)
(***************************************************************************)
\* the string literals handle_input compares its tokens with
kw ==
  [
    HELP |-> << "H", "E", "L", "P" >>,
    VERSION |-> << "V", "E", "R", "S", "I", "O", "N" >>,
    VERBOSE |-> << "V", "E", "R", "B", "O", "S", "E" >>,
    QUIET |-> << "Q", "U", "I", "E", "T" >>,
    FS20 |-> << "F", "S", "2", "0" >>,
    UNI |-> << "U", "N", "I" >>,
    IT |-> << "I", "T" >>,
    InterTechno |-> << "I", "n", "t", "e", "r", "T", "e", "c", "h", "n",
          "o" >>,
    SCENE |-> << "S", "C", "E", "N", "E" >>,
    GET |-> << "G", "E", "T" >>,
    SET |-> << "S", "E", "T" >>,
    WAIT |-> << "W", "A", "I", "T" >>,
    QUIT |-> << "Q", "U", "I", "T" >>,
    EXIT |-> << "E", "X", "I", "T" >>,
    ON |-> << "O", "N" >>,
    UP |-> << "U", "P" >>,
    OPEN |-> << "O", "P", "E", "N" >>,
    OFF |-> << "O", "F", "F" >>,
    DOWN |-> << "D", "O", "W", "N" >>,
    CLOSE |-> << "C", "L", "O", "S", "E" >>,
    TOGGLE |-> << "T", "O", "G", "G", "L", "E" >>,
    BRIGHT |-> << "B", "R", "I", "G", "H", "T" >>,
    DARK |-> << "D", "A", "R", "K" >>,
    STOP |-> << "S", "T", "O", "P" >>,
    CLOCK |-> << "C", "L", "O", "C", "K" >>,
    TIME |-> << "T", "I", "M", "E" >>,
    TEMP |-> << "T", "E", "M", "P" >>,
    TEMPERATURE |-> << "T", "E", "M", "P", "E", "R", "A", "T", "U", "R",
          "E" >>,
    HOUSECODE |-> << "H", "O", "U", "S", "E", "C", "O", "D", "E" >>,
    AUTO |-> << "A", "U", "T", "O" >>,
    AUTOCORRECTION |-> << "A", "U", "T", "O", "C", "O", "R", "R", "E", "C",
          "T", "I", "O", "N" >> ]

\* cmdcompare(ptr, w) == 0 for one of the words
Is(tok, ws) == \E w \in ws : cmdcompare(tok, w) = 0

(***************************************************************************)
(* Input lines the clients send                                            *)
(***************************************************************************)
\* lines a client sends, as recbuffer hands them to handle_input
Line ==
  [
    \* QUIET;b;b; ... ;b: MAX_CMDS commands in 1004 characters
    Many |-> kw.QUIET \o [k \in 1..(2 * (MAX_CMDS - 1)) |-> IF k % 2 = 1 THEN ";" ELSE "b"],
    \* SCENE 5
    Scene |-> << "S", "C", "E", "N", "E", " ", "5" >>,
    \* GET TEMP
    Temp |-> << "G", "E", "T", " ", "T", "E", "M", "P" >>,
    \* SCENE 5;SCENE 6
    Scenes |-> << "S", "C", "E", "N", "E", " ", "5", ";", "S", "C", "E", "N",
          "E", " ", "6" >>,
    \* SET CLOCK;foo
    Clock |-> << "S", "E", "T", " ", "C", "L", "O", "C", "K", ";", "f", "o",
          "o" >>,
    \* SCENE 5;Q;SCENE 6
    Quit |-> << "S", "C", "E", "N", "E", " ", "5", ";", "Q", ";", "S", "C",
          "E", "N", "E", " ", "6" >>,
    \* VERSION;EXIT;SCENE 6
    Exit |-> << "V", "E", "R", "S", "I", "O", "N", ";", "E", "X", "I", "T",
          ";", "S", "C", "E", "N", "E", " ", "6" >>,
    \* SCENE 300
    BadScene |-> << "S", "C", "E", "N", "E", " ", "3", "0", "0" >>,
    \* UNI 17 UP
    BadUni |-> << "U", "N", "I", " ", "1", "7", " ", "U", "P" >>,
    \* IT A 0 ON
    BadIt |-> << "I", "T", " ", "A", " ", "0", " ", "O", "N" >>,
    \* FS20 1111 17
    BadDim |-> << "F", "S", "2", "0", " ", "1", "1", "1", "1", " ", "1",
          "7" >>,
    \* UNI 3 UP
    Uni |-> << "U", "N", "I", " ", "3", " ", "U", "P" >>,
    \* SET HOUSECODE 4444444444
    WideHc |-> << "S", "E", "T", " ", "H", "O", "U", "S", "E", "C", "O", "D",
          "E", " ", "4", "4", "4", "4", "4", "4", "4", "4", "4", "4" >>,
    \* SET HOUSECODE 12341234;GET HOUSECODE
    Hc |-> << "S", "E", "T", " ", "H", "O", "U", "S", "E", "C", "O", "D", "E",
          " ", "1", "2", "3", "4", "1", "2", "3", "4", ";", "G", "E", "T",
          " ", "H", "O", "U", "S", "E", "C", "O", "D", "E" >>,
    \* FS20 1111 ON
    Fs20 |-> << "F", "S", "2", "0", " ", "1", "1", "1", "1", " ", "O", "N" >>,
    \* HELP;QUIET;VERBOSE;WAIT 5;GET CLOCK;SET CLOCK AUTO;
    \* IT B 2 50%;SET CLOCK 11031330
    All |-> << "H", "E", "L", "P", ";", "Q", "U", "I", "E", "T", ";", "V",
          "E", "R", "B", "O", "S", "E", ";", "W", "A", "I", "T", " ", "5",
          ";", "G", "E", "T", " ", "C", "L", "O", "C", "K", ";", "S", "E",
          "T", " ", "C", "L", "O", "C", "K", " ", "A", "U", "T", "O", ";",
          "I", "T", " ", "B", " ", "2", " ", "5", "0", "%", ";", "S", "E",
          "T", " ", "C", "L", "O", "C", "K", " ", "1", "1", "0", "3", "1",
          "3", "3", "0" >>,
    \* FS20 5A ON
    BadFs |-> << "F", "S", "2", "0", " ", "5", "A", " ", "O", "N" >>,
    \* SET HOUSECODE 5599
    BadHc |-> << "S", "E", "T", " ", "H", "O", "U", "S", "E", "C", "O", "D",
          "E", " ", "5", "5", "9", "9" >>,
    \* FS20 123 ON
    OddFs |-> << "F", "S", "2", "0", " ", "1", "2", "3", " ", "O", "N" >>,
    \* SET HOUSECODE 11;GET HOUSECODE
    Codec11 |-> << "S", "E", "T", " ", "H", "O", "U", "S", "E", "C", "O", "D",
          "E", " ", "1", "1", ";", "G", "E", "T", " ", "H", "O", "U", "S",
          "E", "C", "O", "D", "E" >>,
    \* SET HOUSECODE 1234;GET HOUSECODE
    Codec1234 |-> << "S", "E", "T", " ", "H", "O", "U", "S", "E", "C", "O",
          "D", "E", " ", "1", "2", "3", "4", ";", "G", "E", "T", " ", "H",
          "O", "U", "S", "E", "C", "O", "D", "E" >>,
    \* SET HOUSECODE 44;GET HOUSECODE
    Codec44 |-> << "S", "E", "T", " ", "H", "O", "U", "S", "E", "C", "O", "D",
          "E", " ", "4", "4", ";", "G", "E", "T", " ", "H", "O", "U", "S",
          "E", "C", "O", "D", "E" >>,
    \* SET HOUSECODE 11111111;GET HOUSECODE
    Codec11111111 |-> << "S", "E", "T", " ", "H", "O", "U", "S", "E", "C",
          "O", "D", "E", " ", "1", "1", "1", "1", "1", "1", "1", "1", ";",
          "G", "E", "T", " ", "H", "O", "U", "S", "E", "C", "O", "D", "E" >>,
    \* SET HOUSECODE 43214321;GET HOUSECODE
    Codec43214321 |-> << "S", "E", "T", " ", "H", "O", "U", "S", "E", "C",
          "O", "D", "E", " ", "4", "3", "2", "1", "4", "3", "2", "1", ";",
          "G", "E", "T", " ", "H", "O", "U", "S", "E", "C", "O", "D", "E" >>,
    \* WAIT 5
    Wait |-> << "W", "A", "I", "T", " ", "5" >>,
    \* GET /cmd=SCENE+5&Q HTTP/1.1
    HttpQuit |-> << "G", "E", "T", " ", "/", "c", "m", "d", "=", "S", "C",
          "E", "N", "E", "+", "5", "&", "Q", " ", "H", "T", "T", "P", "/",
          "1", ".", "1" >>,
    \* GET /cmd=EXIT HTTP/1.1
    HttpExit |-> << "G", "E", "T", " ", "/", "c", "m", "d", "=", "E", "X",
          "I", "T", " ", "H", "T", "T", "P", "/", "1", ".", "1" >>,
    \* GET /cmd=GET+/cmd=Q+%48TTP/1.1 HTTP/1.0
    HttpNested |-> << "G", "E", "T", " ", "/", "c", "m", "d", "=", "G", "E",
          "T", "+", "/", "c", "m", "d", "=", "Q", "+", "%", "4", "8", "T",
          "T", "P", "/", "1", ".", "1", " ", "H", "T", "T", "P", "/", "1",
          ".", "0" >>,
    \* GET / HTTP/1.1
    HttpRoot |-> << "G", "E", "T", " ", "/", " ", "H", "T", "T", "P", "/",
          "1", ".", "1" >>,
    \* GET /SCENE+5 HTTP/1.1
    HttpNoCmd |-> << "G", "E", "T", " ", "/", "S", "C", "E", "N", "E", "+",
          "5", " ", "H", "T", "T", "P", "/", "1", ".", "1" >>,
    \* GET HTTP/1.1
    HttpNoPath |-> << "G", "E", "T", " ", "H", "T", "T", "P", "/", "1", ".",
          "1" >>,
    \* GET /x HTTP/1.1 /cmd=Q
    HttpLate |-> << "G", "E", "T", " ", "/", "x", " ", "H", "T", "T", "P",
          "/", "1", ".", "1", " ", "/", "c", "m", "d", "=", "Q" >>,
    \* GET /cmd=SET+HOUSECODE+1234 HTTP/1.1
    HttpHc |-> << "G", "E", "T", " ", "/", "c", "m", "d", "=", "S", "E", "T",
          "+", "H", "O", "U", "S", "E", "C", "O", "D", "E", "+", "1", "2",
          "3", "4", " ", "H", "T", "T", "P", "/", "1", ".", "1" >>,
    \* GET /cmd=SCENE+5%3BSCENE%206 HTTP/1.1
    HttpScenes |-> << "G", "E", "T", " ", "/", "c", "m", "d", "=", "S", "C",
          "E", "N", "E", "+", "5", "%", "3", "B", "S", "C", "E", "N", "E",
          "%", "2", "0", "6", " ", "H", "T", "T", "P", "/", "1", ".", "1" >>,
    \* GET /cmd=SCENE+300 HTTP/1.1
    HttpBadScene |-> << "G", "E", "T", " ", "/", "c", "m", "d", "=", "S", "C",
          "E", "N", "E", "+", "3", "0", "0", " ", "H", "T", "T", "P", "/",
          "1", ".", "1" >>,
    \* SET HOUSECODE 1234
    SetHc |-> << "S", "E", "T", " ", "H", "O", "U", "S", "E", "C", "O", "D",
          "E", " ", "1", "2", "3", "4" >>,
    \* VERSION
    Version |-> << "V", "E", "R", "S", "I", "O", "N" >>,
    \* Q
    Q |-> << "Q" >>,
    \* GET /cmd=Q HTTP/1.1
    HttpQ |-> << "G", "E", "T", " ", "/", "c", "m", "d", "=", "Q", " ", "H",
          "T", "T", "P", "/", "1", ".", "1" >>,
    \* SET CLOCK AUTO
    Auto |-> << "S", "E", "T", " ", "C", "L", "O", "C", "K", " ", "A", "U",
          "T", "O" >>,
    \* SCENE 5;   ;SCENE 6
    Blank |-> << "S", "C", "E", "N", "E", " ", "5", ";", " ", " ", " ", ";",
          "S", "C", "E", "N", "E", " ", "6" >>,
    \* QUIET;SET HOUSECODE 1234
    Quiet |-> << "Q", "U", "I", "E", "T", ";", "S", "E", "T", " ", "H", "O",
          "U", "S", "E", "C", "O", "D", "E", " ", "1", "2", "3", "4" >>,
    \* IT Q 1 ON
    ItQ |-> << "I", "T", " ", "Q", " ", "1", " ", "O", "N" >>,
    \* VERSION;VERSION
    Versions |-> << "V", "E", "R", "S", "I", "O", "N", ";", "V", "E", "R",
          "S", "I", "O", "N" >>,
    \* SET HOUSECODE 123
    OddHc |-> << "S", "E", "T", " ", "H", "O", "U", "S", "E", "C", "O", "D",
          "E", " ", "1", "2", "3" >>,
    \* FS20 1111 FOO
    Fs20Foo |-> << "F", "S", "2", "0", " ", "1", "1", "1", "1", " ", "F", "O",
          "O" >> ]

\* the lines the clients of a run choose from
Pool ==
  [
    \* the lines of the runs on the transfer protocol of usb_send
    Usb |-> {Line.Scene, Line.Temp},
    \* the lines of the runs on lines of several commands
    Line |-> {Line.Scenes},
    \* the lines of the runs on failing commands
    Clock |-> {Line.Clock},
    \* the lines of the runs on QUIT and EXIT
    Quit |-> {Line.Quit, Line.Exit},
    \* the lines of the runs on the validation of parameters
    Param |-> {Line.BadScene, Line.BadUni, Line.BadIt, Line.BadDim, Line.Uni},
    \* the lines of the runs on the housecode
    Hc |-> {Line.WideHc, Line.Hc, Line.Fs20},
    \* the lines of the runs of the whole program
    All |-> { Line.Temp, Line.Quit, Line.Exit, Line.BadScene, Line.BadIt,
              Line.BadDim, Line.Uni, Line.Hc, Line.All },
    \* the lines of the runs on the characters of FS20 strings
    Fs |-> {Line.BadFs, Line.BadHc, Line.OddFs, Line.OddHc},
    \* the lines of the runs on the FS20 codec: valid strings of 2, 4 and 8 characters
    Codec |-> {Line.Hc, Line.Codec11, Line.Codec1234, Line.Codec44, Line.Codec11111111, Line.Codec43214321},
    \* the lines of the runs on WAIT
    Wait |-> {Line.Wait, Line.Scene},
    \* the lines of the runs on HTTP requests
    Http |-> {Line.HttpQuit, Line.HttpExit, Line.HttpNested},
    \* the lines of the runs on bad HTTP requests
    Bad |-> {Line.HttpRoot, Line.HttpNoCmd, Line.HttpNoPath, Line.HttpLate, Line.HttpHc},
    \* the lines of the runs that compare the two protocols: lines and the requests for them
    Equiv |-> {Line.Scenes, Line.HttpScenes, Line.BadScene, Line.HttpBadScene, Line.SetHc, Line.HttpHc},
    \* the lines of the runs on the life of a connection
    Conn |-> {Line.Version, Line.Q, Line.HttpQ, Line.Versions},
    \* the lines of the runs on SET CLOCK AUTO
    Auto |-> {Line.Auto},
    \* the lines of the runs on the session of one client
    Session |-> {Line.Blank, Line.Quiet, Line.Scene, Line.ItQ, Line.Fs20Foo, Line.Many} ]

\* what the device may answer on the inbound endpoint: a temperature (0xfd,
\* then twice the degrees) or a clock (ss mm hh dd MM ww yy 00)
Replies == { << 253, 43, 0, 0, 0, 0, 0, 0 >>, << 7, 30, 12, 3, 11, 2, 26, 0 >> }

\* what time() and localtime() give during a run
Now == [tm_sec |-> 7, tm_min |-> 30, tm_hour |-> 13, tm_mday |-> 3,
        tm_mon |-> 10, tm_wday |-> 2, tm_year |-> 126]

\* what strptime may leave in timeinfo for a token of one of its lengths
Times == { Now, [Now EXCEPT !.tm_hour = 23, !.tm_min = 59] }

(***************************************************************************)
(* State                                                                   *)
(***************************************************************************)
VARIABLES
  proc,         \* "run", "exit" (after exit()) or "segv" (a fault ended it)
  dev,          \* the transport of this run: "ok", "dead" or "flaky"
  pool,         \* the lines the clients of this run send
  handle,       \* dev_handle: "open" or "released"
  housecode,    \* unsigned int housecode
  usbcmd,       \* the static char usbcmd[8] of handle_input, set_time, get_time
  mutex_usb,    \* owner of mutex_usb, 0 when free
  mutex_socks,  \* owner of mutex_socks, 0 when free
  socks,        \* fd_set socks
  olds,         \* strtok's saved pointer
  mem,          \* buf[] of each handler thread
  pc,           \* where each handler thread is
  th,           \* the local variables of each handler thread
  out,          \* what each connection has been sent since its last line
  sent,         \* the frames each handler has transferred out since its last line
  lastXfer,     \* the handler that made the latest transfer attempt
  nlines        \* lines received so far

vars == << proc, dev, pool, handle, housecode, usbcmd, mutex_usb, mutex_socks,
           socks, olds, mem, pc, th, out, sent, lastXfer, nlines >>

\* a message for write_to_client: its kind, its text, and for a status line
\* the result and the error message
NoMsg == [kind |-> "", text |-> << >>, ok |-> TRUE, msg |-> "", val |-> 0]
Msg(k) == [kind |-> k, text |-> << >>, ok |-> TRUE, msg |-> "", val |-> 0]

\* locals of handle_input, set_time, get_time, usb_send and write_to_client,
\* at rest
Locals ==
  [ input |-> << >>, cmds |-> << >>, i |-> 1, cmdexec |-> << >>,
    fcmdok |-> TRUE, errormsg |-> "", quiet |-> FALSE, flags |-> 0, rc |-> 0,
    fam |-> "", addr |-> 0, code |-> 0, cmd |-> 0, maincmd |-> 0, val |-> 0,
    isdim |-> FALSE,
    timeinfo |-> Now, fexpectdata |-> FALSE, retry |-> 0, ret |-> 0, err |-> 0,
    attempts |-> 0, buf |-> "handle_input", uret |-> "", sret |-> "",
    gret |-> "", wmsg |-> NoMsg, wret |-> "", wq |-> << >>, depth |-> 0,
    hi |-> 0 - 1, wfail |-> FALSE, waits |-> 0,
    str |-> << >>, slen |-> 0, reads |-> 0 ]

\* the state after start-up, for the lines p and the transports d
Start(p, d) ==
  /\ proc = "run"
  /\ dev \in d
  /\ pool = p
  /\ handle = "open"
  /\ housecode = 0
  /\ usbcmd = [handle_input |-> Zero8, set_time |-> Zero8, get_time |-> Zero8]
  /\ mutex_usb = 0
  /\ mutex_socks = 0
  /\ socks = {}
  /\ olds = NULL
  /\ mem = [h \in Handlers |-> << >>]
  /\ pc = [h \in Handlers |-> "idle"]
  /\ th = [h \in Handlers |-> Locals]
  /\ out = [h \in Handlers |-> << >>]
  /\ sent = [h \in Handlers |-> << >>]
  /\ lastXfer = 0
  /\ nlines = 0

(***************************************************************************)
(* Helpers of the actions                                                  *)
(***************************************************************************)
FlagSet(flags, f) == (flags \div f) % 2 = 1

\* the locals of one command, released at the end of the loop body
EndCmd(t) ==
  [t EXCEPT !.cmdexec = << >>, !.fcmdok = TRUE, !.errormsg = "", !.fam = "",
            !.addr = 0, !.code = 0, !.cmd = 0, !.maincmd = 0, !.val = 0,
            !.isdim = FALSE,
            !.timeinfo = Now, !.fexpectdata = FALSE, !.retry = 0, !.ret = 0,
            !.err = 0, !.attempts = 0, !.buf = "handle_input", !.uret = "",
            !.sret = "", !.gret = "", !.wmsg = NoMsg, !.wret = "",
            !.hi = 0 - 1, !.waits = 0]

\* "Output executed command": the status line is written unless quiet or
\* HANDLE_INPUT_NOOK, then the loop goes on with the next command
GoStatus(t) ==
  IF ~t.quiet /\ ~FlagSet(t.flags, HANDLE_INPUT_NOOK)
    THEN [t  |-> [t EXCEPT !.wmsg = [kind |-> "status", text |-> t.cmdexec,
                                     ok |-> t.fcmdok,
                                     msg |-> IF t.fcmdok THEN "" ELSE t.errormsg,
                                     val |-> 0],
                           !.wret = "cmd"],
          pc |-> "w_lock"]
    ELSE [t |-> EndCmd(t), pc |-> "cmd"]

\* errormsg = seterror(...); fcmdok = false
Fail(t, m) == GoStatus([t EXCEPT !.fcmdok = FALSE, !.errormsg = m])

\* a call of write_to_client(m), going on at label r
GoWrite(t, m, r) == [t |-> [t EXCEPT !.wmsg = m, !.wret = r], pc |-> "w_lock"]

\* calls of write_to_client one after the other, the first of them now and
\* the others (wq) as each one returns, going on at label r after the last
GoWriteAll(t, ms, r) == GoWrite([t EXCEPT !.wq = Tail(ms)], Head(ms), r)

\* a handle_input that took the HTTP branch returns: while calls wait at
\* line 1030 for the one that returned (depth), each of them writes
\* html_footer and returns -3 to its caller; the outermost one returns -3 to
\* tcp_server_handle_client, which writes nothing for it
HttpReturn(t) ==
  IF t.depth > 0
    THEN GoWrite([t EXCEPT !.depth = @ - 1], Msg("htmlfoot"), "http_ret")
    ELSE [t |-> [t EXCEPT !.rc = 0 - 3, !.wmsg = NoMsg, !.wret = ""],
          pc |-> "end"]

ReturnPrompt(t, rc) ==
  GoWrite([EndCmd(t) EXCEPT !.rc = rc, !.cmds = << >>, !.i = 1], Msg("prompt"), "recv")

\* tcp_server_handle_client gets rc from handle_input: "bye" for QUIT and
\* EXIT, nothing for an HTTP request, else the prompt
ReturnToClient(t, rc) ==
  LET u == [EndCmd(t) EXCEPT !.rc = rc, !.cmds = << >>, !.i = 1]
  IN  IF rc < 0
        THEN IF rc > 0 - 3 THEN GoWrite(u, Msg("bye"), "end")
                           ELSE [t |-> u, pc |-> "end"]
        ELSE GoWrite(u, Msg("prompt"), "recv")

ReturnNoHttp(t, rc) == ReturnToClient(t, rc)

\* the command loop of handle_input returns rc: to the handle_input that
\* called it for a decoded request, which ignores rc, to main, the only
\* caller that sets HANDLE_INPUT_NOOK, or to tcp_server_handle_client
Return(t, rc) ==
  LET u == [EndCmd(t) EXCEPT !.rc = rc, !.cmds = << >>, !.i = 1]
  IN  IF t.depth > 0
        THEN HttpReturn(u)
      ELSE IF FlagSet(t.flags, HANDLE_INPUT_NOOK) THEN [t |-> u, pc |-> "main"]
      ELSE ReturnToClient(t, rc)

\* a call of usb_send(dev_handle, b, expect), going on at label r
CallSend(t, b, expect, r) ==
  [t  |-> [t EXCEPT !.buf = b, !.fexpectdata = expect, !.uret = r],
   pc |-> "usb_lock"]

\* the results a transfer attempt can have on this run's transport
DevResults == CASE dev = "ok" -> {TRUE} [] dev = "dead" -> {FALSE} [] OTHER -> BOOLEAN

\* what strtok(NULL, tok_delimiter) returns in this state
NextTok == strtok(mem, olds, NULL, TOKEN_DELIMITER)

\* a step of handler h that calls strtok(NULL, tok_delimiter) and goes on as
\* n says
TokStep(h, n) ==
  /\ mem' = NextTok.mem
  /\ olds' = NextTok.olds
  /\ th' = [th EXCEPT ![h] = n.t]
  /\ pc' = [pc EXCEPT ![h] = n.pc]

\* the token strtok returned, as a string
Tok(r) == CStr(r.mem, r.tok)

(***************************************************************************)
(* main: the accept loop                                                   *)
(***************************************************************************)
\* accept(); FD_SET(client_fd, &socks) under mutex_socks; pthread_create;
\* main is in this loop when no command line was given with -c
Accept(h) ==
  /\ proc = "run"
  /\ pc[h] = "idle"
  /\ \A g \in Handlers : ~FlagSet(th[g].flags, HANDLE_INPUT_NOOK)
  /\ mutex_socks = 0
  /\ socks' = socks \cup {h}
  /\ pc' = [pc EXCEPT ![h] = "recv"]
  /\ mem' = [mem EXCEPT ![h] = << >>]
  /\ UNCHANGED << proc, dev, pool, handle, housecode, usbcmd, mutex_usb,
                  mutex_socks, olds, th, out, sent, lastXfer, nlines >>

\* accept() gives a new connection the descriptor of a connection that was
\* closed, whose handler has ended; FD_SET under mutex_socks; pthread_create
\* starts a handler with its own locals
Reaccept(h) ==
  /\ proc = "run"
  /\ pc[h] = "dead"
  /\ \A g \in Handlers : ~FlagSet(th[g].flags, HANDLE_INPUT_NOOK)
  /\ mutex_socks = 0
  /\ socks' = socks \cup {h}
  /\ pc' = [pc EXCEPT ![h] = "recv"]
  /\ mem' = [mem EXCEPT ![h] = << >>]
  /\ th' = [th EXCEPT ![h] = Locals]
  /\ UNCHANGED << proc, dev, pool, handle, housecode, usbcmd, mutex_usb,
                  mutex_socks, olds, out, sent, lastXfer, nlines >>

(***************************************************************************)
(* handle_input: the HTTP branch                                           *)
(***************************************************************************)
\* the words the HTTP branch looks for
http == [ GET  |-> << "G", "E", "T" >>,
          VER  |-> << "H", "T", "T", "P", "/", "1", "." >>,
          PATH |-> << "/" >>,
          CMD  |-> << "/", "c", "m", "d", "=" >> ]

\* stristr(input,"GET")==input && stristr(input,"HTTP/1.")!=NULL
IsHttp(input) == stristr(input, http.GET) = 1 /\ stristr(input, http.VER) # 0

\* where handle_input starts on its input
Entry(input) == IF IsHttp(input) THEN "http" ELSE "split0"

\* the request cut before "HTTP/1.", from its first '/' on, trimmed; found is
\* FALSE when there is no '/'
HttpPath(input) ==
  LET cut == SubSeq(input, 1, stristr(input, http.VER) - 1)
      at  == stristr(cut, http.PATH)
  IN  [found |-> at # 0,
       str   |-> IF at = 0 THEN << >> ELSE trim(SubSeq(cut, at, Len(cut)))]

CmdAtSlash(path) == 2

\* where the command of a path starts: stristr(input,"/cmd=") + 5, 0 if
\* there is no "/cmd="
CmdAt(path) ==
  IF stristr(path, http.CMD) = 0 THEN 0 ELSE stristr(path, http.CMD) + 5

\* the url-encoded command of a request; found is FALSE for a bad request
HttpCmd(input) ==
  LET p == HttpPath(input)
  IN  IF p.found /\ CmdAt(p.str) # 0
        THEN [found |-> TRUE, str |-> SubSeq(p.str, CmdAt(p.str), Len(p.str))]
        ELSE [found |-> FALSE, str |-> << >>]

\* the answer to a bad request
BadRequest ==
  << Msg("http400"), Msg("htmlhead"), Msg("usage"), Msg("help"), Msg("pre"),
     Msg("htmlfoot") >>

\* the HTTP branch up to the call of handle_input on the decoded command
\* (which url_decode put into a buffer of its own: the thread reads no other
\* buffer from here on), or the whole of it for a bad request
Http(h) ==
  /\ proc = "run"
  /\ pc[h] = "http"
  /\ LET c == HttpCmd(mem[h])
         r == IF c.found
                THEN GoWriteAll([th[h] EXCEPT !.depth = @ + 1,
                                              !.flags = HANDLE_INPUT_HTML],
                                << Msg("http200"), Msg("htmlhead") >>,
                                Entry(url_decode(c.str)))
                ELSE GoWriteAll(th[h], BadRequest, "http_ret")
     IN  /\ mem' = [mem EXCEPT ![h] = IF c.found THEN url_decode(c.str) ELSE @]
         /\ th' = [th EXCEPT ![h] = r.t]
         /\ pc' = [pc EXCEPT ![h] = r.pc]
  /\ UNCHANGED << proc, dev, pool, handle, housecode, usbcmd, mutex_usb,
                  mutex_socks, socks, olds, out, sent, lastXfer, nlines >>

(***************************************************************************)
(* main: one-shot execution                                                *)
(***************************************************************************)
\* main with a command line given with -c: handle_input(trim(cmdexec),
\* dev_handle, 0, HANDLE_INPUT_NOOK) runs in the main thread (the locals are
\* kept in the place of handler 1), and when it has returned, cleanup and
\* return rc end the process; usb_release is in the other branch only
Main ==
  /\ proc = "run"
  /\ \/ /\ \A g \in Handlers : pc[g] = "idle"
        /\ nlines < MaxLines
        /\ \E l \in pool :
             /\ ~IsHttp(trim(l))
             /\ mem' = [mem EXCEPT ![1] = trim(l)]
             /\ th' = [th EXCEPT ![1] = [Locals EXCEPT !.input = trim(l),
                                                      !.flags = HANDLE_INPUT_NOOK]]
        /\ pc' = [pc EXCEPT ![1] = "split0"]
        /\ nlines' = nlines + 1
        /\ UNCHANGED << proc, dev, pool, handle, housecode, usbcmd, mutex_usb,
                        mutex_socks, socks, olds, out, sent, lastXfer >>
     \/ /\ pc[1] = "main"
        /\ proc' = "exit"
        /\ UNCHANGED << dev, pool, handle, housecode, usbcmd, mutex_usb,
                        mutex_socks, socks, olds, mem, pc, th, out, sent,
                        lastXfer, nlines >>

(***************************************************************************)
(* tcp_server_handle_client                                                *)
(***************************************************************************)
\* recbuffer: a recv(s, str, len, flags) that delivers rc bytes whose last is
\* not CR or LF; slen += rc, str += rc and the loop reads again. th.str holds
\* the bytes stored so far, str - buf is its length. The bytes are stored
\* behind str whatever is left of the len bytes of buf: bytes stored behind
\* the buffer overwrite the stack of the thread, and the run goes on or the
\* process is killed
RecvPart(h) ==
  /\ proc = "run"
  /\ pc[h] = "recv"
  /\ nlines < MaxLines
  /\ th[h].reads < MaxReads
  /\ \E l \in pool :
       LET rc == Len(l)
       IN  /\ rc > 0 /\ rc <= INPUT_BUFFER_MAXLEN
           /\ l[rc] \notin {"\r", "\n"}
           /\ th' = [th EXCEPT ![h].str = @ \o l, ![h].slen = @ + rc,
                                ![h].reads = @ + 1]
           /\ IF th[h].slen + rc <= INPUT_BUFFER_MAXLEN THEN UNCHANGED proc
              ELSE proc' \in {"run", "segv"}
  /\ UNCHANGED << dev, pool, handle, housecode, usbcmd, mutex_usb, mutex_socks,
                  socks, olds, mem, pc, out, sent, lastXfer, nlines >>

\* recbuffer: the recv that delivers the end of a line, rc bytes whose last is
\* LF, and returns slen; then handle_input(trim(buf), dev_handle, client_fd, 0)
Recv(h) ==
  /\ proc = "run"
  /\ pc[h] = "recv"
  /\ nlines < MaxLines
  /\ \E l \in pool :
       LET rc == Len(l) + 2
           buf == th[h].str \o l \o << "\r", "\n" >>
       IN  /\ rc <= INPUT_BUFFER_MAXLEN
           /\ mem' = [mem EXCEPT ![h] = trim(buf)]
           /\ th' = [th EXCEPT ![h] = [Locals EXCEPT !.input = trim(buf),
                                                     !.slen = th[h].slen + rc]]
           /\ pc' = [pc EXCEPT ![h] = Entry(trim(buf))]
           /\ IF th[h].slen + rc <= INPUT_BUFFER_MAXLEN THEN UNCHANGED proc
              ELSE proc' \in {"run", "segv"}
  /\ nlines' = nlines + 1
  /\ out' = [out EXCEPT ![h] = << >>]
  /\ sent' = [sent EXCEPT ![h] = << >>]
  /\ UNCHANGED << dev, pool, handle, housecode, usbcmd, mutex_usb,
                  mutex_socks, socks, olds, lastXfer >>

\* recbuffer returns rc <= 0: the peer closed the connection
RecvClosed(h) ==
  /\ proc = "run"
  /\ pc[h] = "recv"
  /\ th' = [th EXCEPT ![h] = [Locals EXCEPT !.rc = 0]]
  /\ pc' = [pc EXCEPT ![h] = "end"]
  /\ UNCHANGED << proc, dev, pool, handle, housecode, usbcmd, mutex_usb,
                  mutex_socks, socks, olds, mem, out, sent, lastXfer, nlines >>

(***************************************************************************)
(* handle_input: splitting the line into commands                          *)
(***************************************************************************)
\* cmds[0] = strtok(input, cmd_delimiter)
Split0(h) ==
  /\ proc = "run"
  /\ pc[h] = "split0"
  /\ LET r == strtok(mem, olds, << h, 1 >>, CMD_DELIMITER)
     IN  /\ mem' = r.mem
         /\ olds' = r.olds
         /\ th' = [th EXCEPT ![h].cmds = << r.tok >>]
         /\ pc' = [pc EXCEPT ![h] = IF r.tok = NULL THEN "cmd" ELSE "splitn"]
  /\ UNCHANGED << proc, dev, pool, handle, housecode, usbcmd, mutex_usb,
                  mutex_socks, socks, out, sent, lastXfer, nlines >>

\* cmds[++i] = strtok(NULL, cmd_delimiter), while i < MAX_CMDS and cmds[i] is
\* not NULL; i is the index the step writes, the length of th.cmds before it
SplitN(h) ==
  /\ proc = "run"
  /\ pc[h] = "splitn"
  /\ LET r == strtok(mem, olds, NULL, CMD_DELIMITER)
         i == Len(th[h].cmds)
     IN  /\ mem' = r.mem
         /\ olds' = r.olds
         /\ th' = [th EXCEPT ![h].cmds = Append(@, r.tok)]
         /\ pc' = [pc EXCEPT ![h] = IF i < MAX_CMDS /\ r.tok # NULL THEN "splitn"
                                    ELSE "cmd"]
         \* a store to cmds[MAX_CMDS] lands behind the array, on the stack of
         \* the thread: the run goes on or the process is killed
         /\ IF i < MAX_CMDS THEN UNCHANGED proc ELSE proc' \in {"run", "segv"}
  /\ UNCHANGED << dev, pool, handle, housecode, usbcmd, mutex_usb,
                  mutex_socks, socks, out, sent, lastXfer, nlines >>

(***************************************************************************)
(* handle_input: the command loop                                          *)
(***************************************************************************)
\* what the first token selects
Dispatch(t, tok) ==
  IF Is(tok, {kw.HELP, << "H" >>, << "?" >>})
    THEN GoWrite(t, Msg("help"), "status")
  ELSE IF Is(tok, {kw.VERSION}) THEN GoWrite(t, Msg("version"), "status")
  ELSE IF Is(tok, {kw.VERBOSE}) THEN GoStatus([t EXCEPT !.quiet = FALSE])
  ELSE IF Is(tok, {kw.QUIET}) THEN GoStatus([t EXCEPT !.quiet = TRUE])
  ELSE IF Is(tok, {kw.FS20}) THEN [t |-> t, pc |-> "fs20_addr"]
  ELSE IF Is(tok, {kw.UNI}) THEN [t |-> t, pc |-> "uni_addr"]
  ELSE IF Is(tok, {kw.IT, kw.InterTechno}) THEN [t |-> t, pc |-> "it_code"]
  ELSE IF Is(tok, {kw.SCENE}) THEN [t |-> t, pc |-> "scene"]
  ELSE IF Is(tok, {kw.GET}) THEN [t |-> t, pc |-> "get"]
  ELSE IF Is(tok, {kw.SET}) THEN [t |-> t, pc |-> "set"]
  ELSE IF Is(tok, {kw.WAIT}) THEN [t |-> t, pc |-> "wait"]
  ELSE IF Is(tok, {kw.QUIT, << "Q" >>}) THEN Return(t, 0 - 1)
  ELSE IF Is(tok, {kw.EXIT, << "E" >>}) THEN Return(t, 0 - 2)
  ELSE Fail(t, "unknown command")

\* the head and the first lines of the loop body: command = cmds[i++],
\* cmdexec = strdup(command), memset(usbcmd), ptr = strtok(command, ...)
Cmd(h) ==
  /\ proc = "run"
  /\ pc[h] = "cmd"
  /\ LET t == th[h]
         command == t.cmds[t.i]
     IN  IF ~(t.i - 1 < MAX_CMDS) \/ command = NULL
           THEN /\ th' = [th EXCEPT ![h] = Return(t, 0).t]
                /\ pc' = [pc EXCEPT ![h] = Return(t, 0).pc]
                /\ UNCHANGED << mem, olds, usbcmd >>
           ELSE LET r == strtok(mem, olds, command, TOKEN_DELIMITER)
                    u == [t EXCEPT !.i = @ + 1, !.cmdexec = CStr(mem, command)]
                    n == IF r.tok = NULL THEN GoStatus(u)
                         ELSE Dispatch(u, Tok(r))
                IN  /\ mem' = r.mem
                    /\ olds' = r.olds
                    /\ usbcmd' = [usbcmd EXCEPT !.handle_input = Zero8]
                    /\ th' = [th EXCEPT ![h] = n.t]
                    /\ pc' = [pc EXCEPT ![h] = n.pc]
  /\ UNCHANGED << proc, dev, pool, handle, housecode, mutex_usb, mutex_socks,
                  socks, out, sent, lastXfer, nlines >>

\* the labels at which the next step calls strtok(NULL, ...)
StrtokPcs ==
  { "splitn", "fs20_addr", "fs20_cmd", "uni_addr", "uni_cmd", "it_code",
    "it_addr", "it_cmd", "scene", "get", "set", "set_hc", "set_clock", "wait" }

\* the pointer the next step of handler h reads through
NextPtr(h) ==
  IF pc[h] \in StrtokPcs THEN olds
  ELSE IF pc[h] = "cmd" THEN th[h].cmds[th[h].i]
  ELSE NULL

\* a read through a pointer into buf[] of a thread that has ended: the stack
\* of that thread is gone, and the read may end the process
Fault(h) ==
  /\ proc = "run"
  /\ NextPtr(h) # NULL
  /\ pc[NextPtr(h)[1]] = "dead"
  /\ proc' = "segv"
  /\ UNCHANGED << dev, pool, handle, housecode, usbcmd, mutex_usb, mutex_socks,
                  socks, olds, mem, pc, th, out, sent, lastXfer, nlines >>

(***************************************************************************)
(* handle_input: the parameters of the commands                            *)
(***************************************************************************)
\* the last character of a token
LastChar(s) == CharAt(s, Len(s))

\* the dim level of a token: strtol, scaled when the token ends in '%'
DimValue(s, full) ==
  IF LastChar(s) = "%" THEN CDiv(full * strtol(s), 100) ELSE strtol(s)

\* FS20: ptr = strtok(NULL, ...); addr = fs20toi(ptr, &cp)
Fs20AddrNext(t, r) ==
  IF r.tok = NULL THEN Fail(t, "missing <addr> parameter")
  ELSE IF fs20toi(Tok(r)) >= 0
    THEN [t |-> [t EXCEPT !.fam = "FS20", !.addr = fs20toi(Tok(r))],
          pc |-> "fs20_cmd"]
  ELSE Fail(t, "wrong <addr> parameter")

Fs20Addr(h) ==
  /\ proc = "run"
  /\ pc[h] = "fs20_addr"
  /\ TokStep(h, Fs20AddrNext(th[h], NextTok))
  /\ UNCHANGED << proc, dev, pool, handle, housecode, usbcmd, mutex_usb,
                  mutex_socks, socks, out, sent, lastXfer, nlines >>

\* FS20: ptr = strtok(NULL, ...); the keyword or the dim level gives cmd
Fs20CmdNext(t, r) ==
  LET s == Tok(r)
      dim == DimValue(s, 16)
  IN  IF r.tok = NULL THEN Fail(t, "missing <cmd> parameter")
      ELSE IF Is(s, {kw.ON, kw.UP, kw.OPEN}) THEN [t |-> [t EXCEPT !.cmd = 17], pc |-> "build"]
      ELSE IF Is(s, {kw.OFF, kw.DOWN, kw.CLOSE}) THEN [t |-> [t EXCEPT !.cmd = 0], pc |-> "build"]
      ELSE IF Is(s, {kw.TOGGLE}) THEN [t |-> [t EXCEPT !.cmd = 18], pc |-> "build"]
      ELSE IF Is(s, {kw.BRIGHT, << "+" >>}) THEN [t |-> [t EXCEPT !.cmd = 19], pc |-> "build"]
      ELSE IF Is(s, {kw.DARK, << "-" >>}) THEN [t |-> [t EXCEPT !.cmd = 20], pc |-> "build"]
      ELSE IF dim < 0 \/ dim > 16
        THEN Fail([t EXCEPT !.isdim = TRUE, !.val = dim, !.cmd = 0 - 2],
                  "Wrong dim level (must be within 0-16 or 0%-100%)")
      ELSE [t |-> [t EXCEPT !.isdim = TRUE, !.val = dim, !.cmd = dim], pc |-> "build"]

Fs20Cmd(h) ==
  /\ proc = "run"
  /\ pc[h] = "fs20_cmd"
  /\ TokStep(h, Fs20CmdNext(th[h], NextTok))
  /\ UNCHANGED << proc, dev, pool, handle, housecode, usbcmd, mutex_usb,
                  mutex_socks, socks, out, sent, lastXfer, nlines >>

\* UNI: ptr = strtok(NULL, ...); addr = strtol(ptr, NULL, 10), 1..16
UniAddrNext(t, r) ==
  LET u == [t EXCEPT !.fam = "UNI", !.addr = strtol(Tok(r))]
  IN  IF r.tok = NULL THEN Fail(t, "missing <addr> parameter")
      ELSE IF u.addr >= 1 /\ u.addr <= 16 THEN [t |-> u, pc |-> "uni_cmd"]
      ELSE Fail(u, "wrong <addr> parameter")

UniAddr(h) ==
  /\ proc = "run"
  /\ pc[h] = "uni_addr"
  /\ TokStep(h, UniAddrNext(th[h], NextTok))
  /\ UNCHANGED << proc, dev, pool, handle, housecode, usbcmd, mutex_usb,
                  mutex_socks, socks, out, sent, lastXfer, nlines >>

\* UNI: ptr = strtok(NULL, ...); STOP, UP or DOWN
UniCmdNext(t, r) ==
  LET s == Tok(r)
  IN  IF r.tok = NULL THEN Fail(t, "missing <cmd> parameter")
      ELSE IF Is(s, {kw.STOP}) THEN [t |-> [t EXCEPT !.cmd = 2], pc |-> "build"]
      ELSE IF Is(s, {kw.UP, << "+" >>}) THEN [t |-> [t EXCEPT !.cmd = 1], pc |-> "build"]
      ELSE IF Is(s, {kw.DOWN, << "-" >>}) THEN [t |-> [t EXCEPT !.cmd = 4], pc |-> "build"]
      ELSE Fail(t, "wrong <cmd> parameter")

UniCmd(h) ==
  /\ proc = "run"
  /\ pc[h] = "uni_cmd"
  /\ TokStep(h, UniCmdNext(th[h], NextTok))
  /\ UNCHANGED << proc, dev, pool, handle, housecode, usbcmd, mutex_usb,
                  mutex_socks, socks, out, sent, lastXfer, nlines >>

\* IT: ptr = strtok(NULL, ...); code = toupper(*ptr) - 'A' for 'A'..'Z'
ItCodeNext(t, r) ==
  LET c == Ord(toupper(Deref(r.mem, r.tok)))
  IN  IF r.tok = NULL THEN Fail(t, "missing <code> parameter")
      ELSE IF c >= 65 /\ c <= 90
        THEN [t |-> [t EXCEPT !.code = c - 65], pc |-> "it_addr"]
      ELSE Fail(t, "<code> parameter out of range (must be within 'A' to 'P')")

ItCode(h) ==
  /\ proc = "run"
  /\ pc[h] = "it_code"
  /\ TokStep(h, ItCodeNext(th[h], NextTok))
  /\ UNCHANGED << proc, dev, pool, handle, housecode, usbcmd, mutex_usb,
                  mutex_socks, socks, out, sent, lastXfer, nlines >>

\* IT: ptr = strtok(NULL, ...); addr = strtol(ptr, NULL, 10), 1..16
ItAddrNext(t, r) ==
  LET u == [t EXCEPT !.fam = "IT", !.addr = strtol(Tok(r))]
  IN  IF r.tok = NULL THEN Fail(t, "missing <addr> parameter")
      ELSE IF u.addr >= 1 /\ u.addr <= 16 THEN [t |-> u, pc |-> "it_cmd"]
      ELSE Fail(u, "<addr> parameter out of range (must be within 1 to 16)")

ItAddr(h) ==
  /\ proc = "run"
  /\ pc[h] = "it_addr"
  /\ TokStep(h, ItAddrNext(th[h], NextTok))
  /\ UNCHANGED << proc, dev, pool, handle, housecode, usbcmd, mutex_usb,
                  mutex_socks, socks, out, sent, lastXfer, nlines >>

\* IT: ptr = strtok(NULL, ...); the keyword (maincmd 6) or the dim level
\* (maincmd 5) gives cmd
ItCmdNext(t, r) ==
  LET s == Tok(r)
      dim == DimValue(s, 248)
      key(c) == [t |-> [t EXCEPT !.cmd = c, !.maincmd = 6], pc |-> "build"]
  IN  IF r.tok = NULL THEN Fail(t, "missing <cmd> parameter")
      ELSE IF Is(s, {kw.ON, kw.UP, kw.OPEN}) THEN key(1)
      ELSE IF Is(s, {kw.OFF, kw.DOWN, kw.CLOSE}) THEN key(0)
      ELSE IF Is(s, {kw.TOGGLE}) THEN key(2)
      ELSE IF Is(s, {kw.BRIGHT, << "+" >>}) THEN key(5)
      ELSE IF Is(s, {kw.DARK, << "-" >>}) THEN key(6)
      ELSE IF dim < 0 \/ dim > 248
        THEN Fail([t EXCEPT !.isdim = TRUE, !.val = dim, !.cmd = 0 - 2, !.maincmd = 5],
                  "Wrong dim level (must be within 0-248 or 0%-100%)")
      ELSE [t |-> [t EXCEPT !.isdim = TRUE, !.val = dim, !.cmd = dim, !.maincmd = 5],
            pc |-> "build"]

ItCmd(h) ==
  /\ proc = "run"
  /\ pc[h] = "it_cmd"
  /\ TokStep(h, ItCmdNext(th[h], NextTok))
  /\ UNCHANGED << proc, dev, pool, handle, housecode, usbcmd, mutex_usb,
                  mutex_socks, socks, out, sent, lastXfer, nlines >>

\* a SCENE that sends whatever number it is given
SceneNextNoRange(t, r) ==
  IF r.tok = NULL THEN Fail(t, "missing parameter")
  ELSE [t |-> [t EXCEPT !.fam = "SCENE", !.val = strtol(Tok(r))], pc |-> "build"]

\* SCENE: ptr = strtok(NULL, ...); scene = strtol(ptr, NULL, 10), 1..254
SceneNext(t, r) ==
  LET u == [t EXCEPT !.fam = "SCENE", !.val = strtol(Tok(r))]
  IN  IF r.tok = NULL THEN Fail(t, "missing parameter")
      ELSE IF u.val >= 1 /\ u.val <= 254 THEN [t |-> u, pc |-> "build"]
      ELSE Fail(u, "parameter <s> out of range (must be within range 1-254)")

SceneParam(h) ==
  /\ proc = "run"
  /\ pc[h] = "scene"
  /\ TokStep(h, SceneNext(th[h], NextTok))
  /\ UNCHANGED << proc, dev, pool, handle, housecode, usbcmd, mutex_usb,
                  mutex_socks, socks, out, sent, lastXfer, nlines >>

\* GET: ptr = strtok(NULL, ...); CLOCK, TEMP or HOUSECODE
GetNext(t, r) ==
  LET s == Tok(r)
  IN  IF r.tok = NULL THEN Fail(t, "missing parameter")
      ELSE IF Is(s, {kw.CLOCK, kw.TIME}) THEN [t |-> [t EXCEPT !.gret = "get"], pc |-> "gt"]
      ELSE IF Is(s, {kw.TEMP, kw.TEMPERATURE})
        THEN [t |-> [t EXCEPT !.fam = "TEMP"], pc |-> "build"]
      ELSE IF Is(s, {kw.HOUSECODE}) THEN [t |-> t, pc |-> "get_hc"]
      ELSE Fail(t, "unknown parameter")

GetParam(h) ==
  /\ proc = "run"
  /\ pc[h] = "get"
  /\ TokStep(h, GetNext(th[h], NextTok))
  /\ UNCHANGED << proc, dev, pool, handle, housecode, usbcmd, mutex_usb,
                  mutex_socks, socks, out, sent, lastXfer, nlines >>

\* GET HOUSECODE: write_to_client(..., itofs20(buf, housecode, NULL))
GetHousecode(h) ==
  /\ proc = "run"
  /\ pc[h] = "get_hc"
  /\ LET n == GoWrite(th[h], [Msg("housecode") EXCEPT !.text = itofs20(housecode)],
                      "status")
     IN  /\ th' = [th EXCEPT ![h] = n.t]
         /\ pc' = [pc EXCEPT ![h] = n.pc]
  /\ UNCHANGED << proc, dev, pool, handle, housecode, usbcmd, mutex_usb,
                  mutex_socks, socks, olds, mem, out, sent, lastXfer, nlines >>

\* SET: ptr = strtok(NULL, ...); CLOCK or HOUSECODE
SetNext(t, r) ==
  LET s == Tok(r)
  IN  IF r.tok = NULL THEN Fail(t, "missing parameter")
      ELSE IF Is(s, {kw.CLOCK, kw.TIME}) THEN [t |-> t, pc |-> "set_clock"]
      ELSE IF Is(s, {kw.HOUSECODE}) THEN [t |-> t, pc |-> "set_hc"]
      ELSE Fail(t, "unknown parameter")

SetParam(h) ==
  /\ proc = "run"
  /\ pc[h] = "set"
  /\ TokStep(h, SetNext(th[h], NextTok))
  /\ UNCHANGED << proc, dev, pool, handle, housecode, usbcmd, mutex_usb,
                  mutex_socks, socks, out, sent, lastXfer, nlines >>

SetHousecodeNextUnchecked(t, r) ==
  IF r.tok = NULL THEN Fail(t, "missing paramater")
  ELSE [t |-> [t EXCEPT !.fam = "SETHC", !.val = fs20toi(Tok(r))], pc |-> "set_hc_w"]

\* SET HOUSECODE: ptr = strtok(NULL, ...); newhc = fs20toi(ptr, NULL)
SetHousecodeNext(t, r) ==
  IF r.tok = NULL THEN Fail(t, "missing paramater")
  ELSE IF fs20toi(Tok(r)) >= 0
    THEN [t |-> [t EXCEPT !.fam = "SETHC", !.val = fs20toi(Tok(r))], pc |-> "set_hc_w"]
  ELSE Fail(t, "wrong paramater")

SetHousecodeParam(h) ==
  /\ proc = "run"
  /\ pc[h] = "set_hc"
  /\ TokStep(h, SetHousecodeNext(th[h], NextTok))
  /\ UNCHANGED << proc, dev, pool, handle, housecode, usbcmd, mutex_usb,
                  mutex_socks, socks, out, sent, lastXfer, nlines >>

\* SET HOUSECODE: housecode = newhc
SetHousecode(h) ==
  /\ proc = "run"
  /\ pc[h] = "set_hc_w"
  /\ housecode' = th[h].val
  /\ th' = [th EXCEPT ![h] = GoStatus(th[h]).t]
  /\ pc' = [pc EXCEPT ![h] = GoStatus(th[h]).pc]
  /\ UNCHANGED << proc, dev, pool, handle, usbcmd, mutex_usb, mutex_socks,
                  socks, olds, mem, out, sent, lastXfer, nlines >>

\* SET CLOCK: the optional token is a time (strptime leaves ti in timeinfo),
\* AUTO, or wrong; without a token the time is now
SetClockNext(t, r, ti) ==
  LET s == Tok(r)
  IN  IF r.tok = NULL
        THEN [t |-> [t EXCEPT !.timeinfo = Now, !.sret = "set"], pc |-> "st1"]
      ELSE IF Len(s) \in {8, 10, 11, 12, 13, 15}
        THEN [t |-> [t EXCEPT !.timeinfo = ti, !.sret = "set"], pc |-> "st1"]
      ELSE IF (Len(s) = 4 /\ Is(s, {kw.AUTO})) \/ (Len(s) = 14 /\ Is(s, {kw.AUTOCORRECTION}))
        THEN [t |-> [t EXCEPT !.timeinfo = [Now EXCEPT !.tm_sec = 0], !.sret = "auto"],
              pc |-> "st1"]
      ELSE Fail(t, "wrong paramater, use time format 'MMDDhhmm[[CC]YY][.ss]' or keyword 'AUTO'")

SetClockParam(h) ==
  /\ proc = "run"
  /\ pc[h] = "set_clock"
  /\ \E ti \in Times : TokStep(h, SetClockNext(th[h], NextTok, ti))
  /\ UNCHANGED << proc, dev, pool, handle, housecode, usbcmd, mutex_usb,
                  mutex_socks, socks, out, sent, lastXfer, nlines >>

\* WAIT: ptr = strtok(NULL, ...); ms = strtol(ptr, NULL, 10)
WaitNext(t, r) ==
  IF r.tok = NULL THEN Fail(t, "missing parameter")
  ELSE [t |-> [t EXCEPT !.fam = "WAIT", !.val = strtol(Tok(r))], pc |-> "sleep"]

\* a WAIT that takes the transport lock before it goes to sleep
WaitParamLocked(h) ==
  /\ proc = "run"
  /\ pc[h] = "wait"
  /\ mutex_usb = 0
  /\ mutex_usb' = h
  /\ TokStep(h, WaitNext(th[h], NextTok))
  /\ UNCHANGED << proc, dev, pool, handle, housecode, usbcmd, mutex_socks,
                  socks, out, sent, lastXfer, nlines >>

WaitParam(h) ==
  /\ proc = "run"
  /\ pc[h] = "wait"
  /\ TokStep(h, WaitNext(th[h], NextTok))
  /\ UNCHANGED << proc, dev, pool, handle, housecode, usbcmd, mutex_usb,
                  mutex_socks, socks, out, sent, lastXfer, nlines >>

\* WAIT: usleep(ms*1000L) returns
WaitEnd(h) ==
  /\ proc = "run"
  /\ pc[h] = "sleep"
  /\ th' = [th EXCEPT ![h] = GoStatus(th[h]).t]
  /\ pc' = [pc EXCEPT ![h] = GoStatus(th[h]).pc]
  /\ UNCHANGED << proc, dev, pool, handle, housecode, usbcmd, mutex_usb,
                  mutex_socks, socks, olds, mem, out, sent, lastXfer, nlines >>

(***************************************************************************)
(* handle_input: the frames                                                *)
(***************************************************************************)
\* the bytes a command writes into usbcmd before it calls usb_send; hi is
\* what the FS20 command read as housecode >> 8
Frame(t, b) ==
  CASE t.fam = "FS20" ->
         [b EXCEPT ![1] = 1, ![2] = t.hi,
                   ![3] = housecode % 256, ![4] = Byte(t.addr),
                   ![5] = Byte(t.cmd), ![7] = 3]
    [] t.fam = "UNI" ->
         [b EXCEPT ![1] = 21, ![2] = Byte(t.addr - 1), ![3] = 116,
                   ![4] = Byte(t.cmd)]
    [] t.fam = "IT" ->
         [b EXCEPT ![1] = 5, ![2] = Byte(t.code * 16 + (t.addr - 1)),
                   ![3] = Byte(t.cmd), ![4] = t.maincmd, ![5] = 1]
    [] t.fam = "SCENE" -> [b EXCEPT ![1] = 15, ![2] = Byte(t.val)]
    [] t.fam = "TEMP" -> [b EXCEPT ![1] = 12]
    [] OTHER -> b

\* FS20 reads the housecode twice, without a lock: this is the first read,
\* usbcmd[1] = (unsigned char) (housecode >> 8)
Fs20High(h) ==
  /\ proc = "run"
  /\ pc[h] = "build"
  /\ th[h].fam = "FS20" /\ th[h].hi < 0
  /\ th' = [th EXCEPT ![h].hi = Byte(housecode \div 256)]
  /\ UNCHANGED << proc, dev, pool, handle, housecode, usbcmd, mutex_usb,
                  mutex_socks, socks, olds, mem, pc, out, sent, lastXfer, nlines >>

\* the frame is written into the static buffer and usb_send is called
Build(h) ==
  /\ proc = "run"
  /\ pc[h] = "build"
  /\ th[h].fam = "FS20" => th[h].hi >= 0
  /\ usbcmd' = [usbcmd EXCEPT !.handle_input = Frame(th[h], @)]
  /\ LET n == CallSend(th[h], "handle_input", th[h].fam = "TEMP",
                       IF th[h].fam = "TEMP" THEN "temp" ELSE "cmd")
     IN  /\ th' = [th EXCEPT ![h] = n.t]
         /\ pc' = [pc EXCEPT ![h] = n.pc]
  /\ UNCHANGED << proc, dev, pool, handle, housecode, mutex_usb, mutex_socks,
                  socks, olds, mem, out, sent, lastXfer, nlines >>

\* GET TEMP after a successful usb_send: the temperature is written when
\* usbcmd[0] == 0xfd, which a build with a signed char never finds true
Temp(h) ==
  /\ proc = "run"
  /\ pc[h] = "temp"
  /\ \E unsignedchar \in BOOLEAN :
       LET n == IF unsignedchar /\ usbcmd.handle_input[1] = 253
                  THEN GoWrite(th[h], [Msg("temp") EXCEPT !.val = usbcmd.handle_input[2]],
                               "status")
                  ELSE GoStatus(th[h])
       IN  /\ th' = [th EXCEPT ![h] = n.t]
           /\ pc' = [pc EXCEPT ![h] = n.pc]
  /\ UNCHANGED << proc, dev, pool, handle, housecode, usbcmd, mutex_usb,
                  mutex_socks, socks, olds, mem, out, sent, lastXfer, nlines >>

(***************************************************************************)
(* set_time and get_time                                                   *)
(***************************************************************************)
BCD(v) == CDiv(v, 10) * 16 + (v - CDiv(v, 10) * 10)

\* the first frame of set_time: 0x08 and the fields of timeinfo, BCD coded
TimeFrame(ti) ==
  << 8, Byte(BCD(ti.tm_sec)), Byte(BCD(ti.tm_min)), Byte(BCD(ti.tm_hour)),
     Byte(BCD(ti.tm_mday)), Byte(BCD(ti.tm_mon + 1)),
     Byte(BCD(IF ti.tm_wday = 0 THEN 7 ELSE ti.tm_wday)),
     Byte(BCD(ti.tm_year - 100)) >>

\* what the caller of set_time does with its result r
SetTimeReturn(t, r) ==
  IF r # 0 THEN Fail(t, "USB communication error")
  ELSE IF t.sret = "auto" THEN [t |-> [t EXCEPT !.gret = "auto"], pc |-> "gt"]
  ELSE GoStatus(t)

\* a step of set_time: the frame f is written and sent, or, after a send
\* that failed, set_time returns 0
SetTimeStep(h, lbl, f, r) ==
  /\ proc = "run"
  /\ pc[h] = lbl
  /\ LET t == th[h]
         n == IF lbl # "st1" /\ t.err # 0 THEN SetTimeReturn(t, 0)
              ELSE CallSend(t, "set_time", FALSE, r)
     IN  /\ usbcmd' = IF lbl # "st1" /\ t.err # 0 THEN usbcmd
                      ELSE [usbcmd EXCEPT !.set_time = f]
         /\ th' = [th EXCEPT ![h] = n.t]
         /\ pc' = [pc EXCEPT ![h] = n.pc]
  /\ UNCHANGED << proc, dev, pool, handle, housecode, mutex_usb, mutex_socks,
                  socks, olds, mem, out, sent, lastXfer, nlines >>

SetTime1(h) == SetTimeStep(h, "st1", TimeFrame(th[h].timeinfo), "st2")
SetTime2(h) == SetTimeStep(h, "st2", [Zero8 EXCEPT ![3] = 13], "st3")
SetTime3(h) == SetTimeStep(h, "st3", << 6, 2, 1, 2, 0, 0, 0, 0 >>, "st4")

\* the end of set_time: 0 after a send that failed; after the third send
\* succeeded the function ends without a return statement, and the caller
\* reads a value that is not defined
SetTimeEnd(h) ==
  /\ proc = "run"
  /\ pc[h] = "st4"
  /\ \E r \in IF th[h].err # 0 THEN {0} ELSE {0, EXIT_FAILURE} :
       /\ th' = [th EXCEPT ![h] = SetTimeReturn(th[h], r).t]
       /\ pc' = [pc EXCEPT ![h] = SetTimeReturn(th[h], r).pc]
  /\ UNCHANGED << proc, dev, pool, handle, housecode, usbcmd, mutex_usb,
                  mutex_socks, socks, olds, mem, out, sent, lastXfer, nlines >>

\* get_time: memset, usbcmd[0] = 0x09, usb_send(dev_handle, usbcmd, true)
GetTime(h) ==
  /\ proc = "run"
  /\ pc[h] = "gt"
  /\ usbcmd' = [usbcmd EXCEPT !.get_time = [Zero8 EXCEPT ![1] = 9]]
  /\ LET n == CallSend(th[h], "get_time", TRUE, "gt_x")
     IN  /\ th' = [th EXCEPT ![h] = n.t]
         /\ pc' = [pc EXCEPT ![h] = n.pc]
  /\ UNCHANGED << proc, dev, pool, handle, housecode, mutex_usb, mutex_socks,
                  socks, olds, mem, out, sent, lastXfer, nlines >>

\* the hour of localtime(mktime(...)) of the reply ss mm hh in b
DevHour(b) == (b[3] + ((b[2] + (b[1] \div 60)) \div 60)) % 24

\* get_time returns -1 after a send that failed, else the time in the
\* buffer: GET CLOCK writes it, SET CLOCK AUTO moves the hour of now by the
\* difference and calls set_time
GetTimeEnd(h) ==
  /\ proc = "run"
  /\ pc[h] = "gt_x"
  /\ LET t == th[h]
         hour == DevHour(usbcmd.get_time)
         n == IF t.err # 0 THEN Fail(t, "USB communication error")
              ELSE IF t.gret = "auto"
                THEN [t |-> [t EXCEPT !.timeinfo =
                                 [Now EXCEPT !.tm_hour = @ + (t.timeinfo.tm_hour - hour)],
                               !.sret = "set"],
                      pc |-> "st1"]
              ELSE GoWrite(t, [Msg("clock") EXCEPT !.val = hour], "status")
     IN  /\ th' = [th EXCEPT ![h] = n.t]
         /\ pc' = [pc EXCEPT ![h] = n.pc]
  /\ UNCHANGED << proc, dev, pool, handle, housecode, usbcmd, mutex_usb,
                  mutex_socks, socks, olds, mem, out, sent, lastXfer, nlines >>

(***************************************************************************)
(* usb_send                                                                *)
(***************************************************************************)
\* a usb_send that enters without waiting for mutex_usb
UsbLockUnguarded(h) ==
  /\ proc = "run"
  /\ pc[h] = "usb_lock"
  /\ mutex_usb' = h
  /\ th' = [th EXCEPT ![h].retry = USB_MAX_RETRY, ![h].ret = EXIT_FAILURE,
                      ![h].err = 0]
  /\ pc' = [pc EXCEPT ![h] = "usb_out"]
  /\ UNCHANGED << proc, dev, pool, handle, housecode, usbcmd, mutex_socks,
                  socks, olds, mem, out, sent, lastXfer, nlines >>

\* pthread_mutex_lock(&mutex_usb); retry = USB_MAX_RETRY; ret = EXIT_FAILURE
UsbLock(h) ==
  /\ proc = "run"
  /\ pc[h] = "usb_lock"
  /\ mutex_usb = 0
  /\ mutex_usb' = h
  /\ th' = [th EXCEPT ![h].retry = USB_MAX_RETRY, ![h].ret = EXIT_FAILURE,
                      ![h].err = 0]
  /\ pc' = [pc EXCEPT ![h] = "usb_out"]
  /\ UNCHANGED << proc, dev, pool, handle, housecode, usbcmd, mutex_socks,
                  socks, olds, mem, out, sent, lastXfer, nlines >>

\* the outbound libusb_interrupt_transfer (endpoint 0x01) is entered
UsbOutBegin(h) ==
  /\ proc = "run"
  /\ pc[h] = "usb_out"
  /\ th[h].ret # 0 /\ th[h].retry > 0
  /\ pc' = [pc EXCEPT ![h] = "usb_out_x"]
  /\ UNCHANGED << proc, dev, pool, handle, housecode, usbcmd, mutex_usb,
                  mutex_socks, socks, olds, mem, th, out, sent, lastXfer, nlines >>

\* an attempt after which a success clears the error of the leg before
AfterAttemptClears(t, ret) ==
  [t EXCEPT !.ret = ret, !.retry = @ - 1, !.attempts = @ + 1,
            !.waits = IF ret # 0 /\ t.retry > 1 THEN @ + 1 ELSE @,
            !.err = IF t.retry > 1 /\ ret # 0 THEN @ ELSE ret]

\* the locals after an attempt that returned ret: retry--, usleep when the
\* loop goes round (waits counts them), and err = ret when the loop ends on
\* a failure with the budget used up
AfterAttempt(t, ret) ==
  LET retry == t.retry - 1
  IN  [t EXCEPT !.ret = ret, !.retry = retry, !.attempts = @ + 1,
                !.waits = IF ret # 0 /\ retry > 0 THEN @ + 1 ELSE @,
                !.err = IF ret # 0 /\ retry = 0 THEN ret ELSE @]

\* a usb_send that returns from a failed outbound loop at once, without the
\* unlock
AfterOutLeaves(t) ==
  IF t.err # 0 THEN [t |-> t, pc |-> "cmd"]
  ELSE IF t.fexpectdata
    THEN [t |-> [t EXCEPT !.retry = USB_MAX_RETRY, !.ret = EXIT_FAILURE],
          pc |-> "usb_in"]
  ELSE [t |-> t, pc |-> "usb_unlock"]

\* where usb_send goes after the outbound loop: to the inbound loop when
\* fexpectdata, whatever the outbound loop ended with
AfterOut(t) ==
  IF t.fexpectdata
    THEN [t |-> [t EXCEPT !.retry = USB_MAX_RETRY, !.ret = EXIT_FAILURE],
          pc |-> "usb_in"]
    ELSE [t |-> t, pc |-> "usb_unlock"]

\* a usb_send that gives the lock back between its two loops
LockAfterOutReleased(h) == 0

\* the owner of mutex_usb between the two loops: usb_send keeps the lock
LockAfterOut(h) == mutex_usb

\* the outbound transfer returns; the loop goes round (after the usleep) or
\* ends
UsbOutEnd(h) ==
  /\ proc = "run"
  /\ pc[h] = "usb_out_x"
  /\ \E ok \in DevResults :
       LET t == AfterAttempt(th[h], IF ok THEN 0 ELSE 0 - 7)
           n == IF t.ret # 0 /\ t.retry > 0 THEN [t |-> t, pc |-> "usb_out"]
                ELSE AfterOut(t)
       IN  /\ sent' = [sent EXCEPT ![h] = IF ok THEN Append(@, usbcmd[t.buf]) ELSE @]
           /\ th' = [th EXCEPT ![h] = n.t]
           /\ pc' = [pc EXCEPT ![h] = n.pc]
           /\ mutex_usb' = IF n.pc = "usb_in" THEN LockAfterOut(h) ELSE mutex_usb
  /\ lastXfer' = h
  /\ UNCHANGED << proc, dev, pool, handle, housecode, usbcmd, mutex_socks,
                  socks, olds, mem, out, nlines >>

\* the inbound libusb_interrupt_transfer (endpoint 0x82) is entered
UsbInBegin(h) ==
  /\ proc = "run"
  /\ pc[h] = "usb_in"
  /\ th[h].ret # 0 /\ th[h].retry > 0
  /\ pc' = [pc EXCEPT ![h] = "usb_in_x"]
  /\ UNCHANGED << proc, dev, pool, handle, housecode, usbcmd, mutex_usb,
                  mutex_socks, socks, olds, mem, th, out, sent, lastXfer, nlines >>

\* the inbound transfer returns; on success the reply is in the buffer
UsbInEnd(h) ==
  /\ proc = "run"
  /\ pc[h] = "usb_in_x"
  /\ \E ok \in DevResults :
       LET t == AfterAttempt(th[h], IF ok THEN 0 ELSE 0 - 7)
       IN  /\ IF ok THEN \E r \in Replies : usbcmd' = [usbcmd EXCEPT ![t.buf] = r]
                    ELSE usbcmd' = usbcmd
           /\ th' = [th EXCEPT ![h] = t]
           /\ pc' = [pc EXCEPT ![h] = IF t.ret # 0 /\ t.retry > 0
                                        THEN "usb_in" ELSE "usb_unlock"]
  /\ lastXfer' = h
  /\ UNCHANGED << proc, dev, pool, handle, housecode, mutex_usb, mutex_socks,
                  socks, olds, mem, out, sent, nlines >>

\* what the caller does with the result of usb_send, whose locals are gone
AfterSend(t) ==
  LET u == [t EXCEPT !.retry = 0, !.ret = 0]
  IN  IF u.uret \in {"cmd", "temp"} /\ u.err # 0
        THEN Fail(u, "USB communication error")
      ELSE IF u.uret = "cmd" THEN GoStatus(u)
      ELSE [t |-> u, pc |-> u.uret]

\* a usb_send that returns with mutex_usb still locked
UsbUnlockKeeps(h) ==
  /\ proc = "run"
  /\ pc[h] = "usb_unlock"
  /\ th' = [th EXCEPT ![h] = AfterSend(th[h]).t]
  /\ pc' = [pc EXCEPT ![h] = AfterSend(th[h]).pc]
  /\ UNCHANGED << proc, dev, pool, handle, housecode, usbcmd, mutex_usb,
                  mutex_socks, socks, olds, mem, out, sent, lastXfer, nlines >>

\* pthread_mutex_unlock(&mutex_usb); return err
UsbUnlock(h) ==
  /\ proc = "run"
  /\ pc[h] = "usb_unlock"
  /\ mutex_usb' = 0
  /\ th' = [th EXCEPT ![h] = AfterSend(th[h]).t]
  /\ pc' = [pc EXCEPT ![h] = AfterSend(th[h]).pc]
  /\ UNCHANGED << proc, dev, pool, handle, housecode, usbcmd, mutex_socks,
                  socks, olds, mem, out, sent, lastXfer, nlines >>

(***************************************************************************)
(* write_to_client                                                         *)
(***************************************************************************)
\* pthread_mutex_lock(&mutex_socks), and send() is entered; with socket
\* handle 0, which main passes with HANDLE_INPUT_NOOK, the text goes to
\* stdout and the mutex is not taken
WriteLock(h) ==
  /\ proc = "run"
  /\ pc[h] = "w_lock"
  /\ IF FlagSet(th[h].flags, HANDLE_INPUT_NOOK)
       THEN mutex_socks' = mutex_socks
       ELSE mutex_socks = 0 /\ mutex_socks' = h
  /\ pc' = [pc EXCEPT ![h] = "w_send"]
  /\ UNCHANGED << proc, dev, pool, handle, housecode, usbcmd, mutex_usb, socks,
                  olds, mem, th, out, sent, lastXfer, nlines >>

\* where the caller goes on after the write
AfterWrite(t) ==
  CASE t.wq # << >>        -> GoWrite([t EXCEPT !.wq = Tail(@)], Head(t.wq), t.wret)
    [] t.wret = "status"   -> GoStatus(t)
    [] t.wret = "cmd"      -> [t |-> EndCmd(t), pc |-> "cmd"]
    [] t.wret = "http_ret" -> HttpReturn(t)
    [] OTHER               -> [t |-> [t EXCEPT !.wmsg = NoMsg, !.wret = ""],
                               pc |-> t.wret]

\* send() returns; pthread_mutex_unlock(&mutex_socks).  After the prompt the
\* thread is back in its loop: memset(buf), and what the line left behind is
\* dropped from the records
WriteSend(h) ==
  /\ proc = "run"
  /\ pc[h] = "w_send"
  /\ mutex_socks' = IF FlagSet(th[h].flags, HANDLE_INPUT_NOOK) THEN mutex_socks ELSE 0
  /\ pc' = [pc EXCEPT ![h] = AfterWrite(th[h]).pc]
  /\ IF AfterWrite(th[h]).pc = "recv"
       THEN /\ mem' = [mem EXCEPT ![h] = << >>]
            /\ th' = [th EXCEPT ![h] = Locals]
            /\ out' = [out EXCEPT ![h] = << th[h].wmsg >>]
            /\ sent' = [sent EXCEPT ![h] = << >>]
       ELSE /\ th' = [th EXCEPT ![h] = AfterWrite(th[h]).t]
            /\ out' = [out EXCEPT ![h] = Append(@, th[h].wmsg)]
            /\ UNCHANGED << mem, sent >>
  /\ UNCHANGED << proc, dev, pool, handle, housecode, usbcmd, mutex_usb, socks,
                  olds, lastXfer, nlines >>

\* send() returns -1 (the client is gone); pthread_mutex_unlock(&mutex_socks).
\* After the prompt tcp_server_handle_client goes on at line 1666 with
\* FD_CLR, close and pthread_exit.  The result of every other write is
\* ignored: the caller goes on as after a write that was sent
WriteFail(h) ==
  /\ proc = "run"
  /\ pc[h] = "w_send"
  /\ ~FlagSet(th[h].flags, HANDLE_INPUT_NOOK)
  /\ mutex_socks' = 0
  /\ LET n == IF th[h].wmsg.kind = "prompt"
                THEN [t |-> [th[h] EXCEPT !.wmsg = NoMsg, !.wret = ""], pc |-> "end"]
                ELSE AfterWrite(th[h])
     IN  /\ pc' = [pc EXCEPT ![h] = n.pc]
         /\ th' = [th EXCEPT ![h] = [n.t EXCEPT !.wfail = TRUE]]
  /\ UNCHANGED << proc, dev, pool, handle, housecode, usbcmd, mutex_usb, socks,
                  olds, mem, out, sent, lastXfer, nlines >>

\* libusb_interrupt_transfer on a handle that usb_release has closed: the
\* call reads freed memory, and may end the process
UsbGone(h) ==
  /\ proc = "run"
  /\ pc[h] \in {"usb_out_x", "usb_in_x"}
  /\ handle = "released"
  /\ proc' = "segv"
  /\ UNCHANGED << dev, pool, handle, housecode, usbcmd, mutex_usb, mutex_socks,
                  socks, olds, mem, pc, th, out, sent, lastXfer, nlines >>

(***************************************************************************)
(* tcp_server_handle_client_end, usb_release                               *)
(***************************************************************************)
EndKeeps(h) ==
  /\ proc = "run"
  /\ pc[h] = "end"
  /\ mutex_socks = 0
  /\ pc' = [pc EXCEPT ![h] = "close"]
  /\ UNCHANGED << proc, dev, pool, handle, housecode, usbcmd, mutex_usb, socks,
                  mutex_socks, olds, mem, th, out, sent, lastXfer, nlines >>

\* FD_CLR(client_fd, &socks) under mutex_socks
End(h) ==
  /\ proc = "run"
  /\ pc[h] = "end"
  /\ mutex_socks = 0
  /\ socks' = socks \ {h}
  /\ pc' = [pc EXCEPT ![h] = "close"]
  /\ UNCHANGED << proc, dev, pool, handle, housecode, usbcmd, mutex_usb,
                  mutex_socks, olds, mem, th, out, sent, lastXfer, nlines >>

\* close(client_fd); then usb_release and exit when rc == -2, else the
\* thread ends
Close(h) ==
  /\ proc = "run"
  /\ pc[h] = "close"
  /\ pc' = [pc EXCEPT ![h] = IF th[h].rc = 0 - 2 THEN "release" ELSE "dead"]
  /\ UNCHANGED << proc, dev, pool, handle, housecode, usbcmd, mutex_usb,
                  mutex_socks, socks, olds, mem, th, out, sent, lastXfer, nlines >>

\* usb_release: the interface is released and the device closed under mutex_usb
Release(h) ==
  /\ proc = "run"
  /\ pc[h] = "release"
  /\ mutex_usb = 0
  /\ handle' = "released"
  /\ pc' = [pc EXCEPT ![h] = "exit"]
  /\ UNCHANGED << proc, dev, pool, housecode, usbcmd, mutex_usb, mutex_socks,
                  socks, olds, mem, th, out, sent, lastXfer, nlines >>

\* exit(rc)
Exit(h) ==
  /\ proc = "run"
  /\ pc[h] = "exit"
  /\ proc' = "exit"
  /\ UNCHANGED << dev, pool, handle, housecode, usbcmd, mutex_usb, mutex_socks,
                  socks, olds, mem, pc, th, out, sent, lastXfer, nlines >>

(***************************************************************************)
(* The specifications                                                      *)
(***************************************************************************)
\* a connection, from accept to close
Conn(h) == Accept(h) \/ Recv(h) \/ RecvClosed(h) \/ End(h) \/ Close(h)

\* the command loop of handle_input and its output
Loop(h) == Split0(h) \/ SplitN(h) \/ Cmd(h) \/ Fault(h) \/ WriteLock(h) \/ WriteSend(h)

\* usb_send without a reply
Send(h) == UsbLock(h) \/ UsbOutBegin(h) \/ UsbOutEnd(h) \/ UsbUnlock(h)

\* the inbound leg of a send
Reply(h) == UsbInBegin(h) \/ UsbInEnd(h)

\* the server shuts down
Shutdown(h) == Release(h) \/ Exit(h)

\* set_time
SetTime(h) == SetTime1(h) \/ SetTime2(h) \/ SetTime3(h) \/ SetTimeEnd(h)

Next ==
  \E h \in Handlers :
    \/ Conn(h) \/ Loop(h) \/ Build(h) \/ Send(h) \/ Reply(h) \/ Shutdown(h)
    \/ SetTime(h)
    \/ Fs20Addr(h) \/ Fs20Cmd(h) \/ Fs20High(h) \/ UniAddr(h) \/ UniCmd(h)
    \/ ItCode(h) \/ ItAddr(h) \/ ItCmd(h) \/ SceneParam(h)
    \/ GetParam(h) \/ GetHousecode(h) \/ Temp(h) \/ GetTime(h) \/ GetTimeEnd(h)
    \/ SetParam(h) \/ SetHousecodeParam(h) \/ SetHousecode(h) \/ SetClockParam(h)
    \/ WaitParam(h) \/ WaitEnd(h) \/ WriteFail(h) \/ UsbGone(h) \/ Http(h)
    \/ Main

Init == Start(Pool.All, {"ok", "dead"})

Spec == Init /\ [][Next]_vars

\* runs on the transfer protocol of usb_send
NextUsb ==
  \E h \in Handlers :
    \/ Conn(h) \/ Loop(h) \/ Build(h) \/ Send(h) \/ Reply(h)
    \/ SceneParam(h) \/ GetParam(h) \/ Temp(h)

SpecUsb == Start(Pool.Usb, {"ok", "dead"}) /\ [][NextUsb]_vars

\* the same runs when every handler that can go on does, and a handler does
\* not wait for ever for a lock that is free again and again
SpecUsbFair ==
  /\ SpecUsb
  /\ \A h \in Handlers :
       /\ SF_vars(UsbLock(h))
       /\ WF_vars(UsbOutBegin(h) \/ UsbOutEnd(h) \/ UsbInBegin(h) \/ UsbInEnd(h)
                    \/ UsbUnlock(h))

\* the same runs on a transport whose transfers fail now and then
SpecFlaky == Start(Pool.Usb, {"flaky"}) /\ [][NextUsb]_vars

\* runs on lines of several commands
NextLine ==
  \E h \in Handlers : Conn(h) \/ Loop(h) \/ Build(h) \/ Send(h) \/ SceneParam(h)

SpecLine == Start(Pool.Line, {"ok", "dead"}) /\ [][NextLine]_vars

\* runs on failing commands
NextClock ==
  \E h \in Handlers :
    \/ Conn(h) \/ Loop(h) \/ Send(h) \/ SetTime(h)
    \/ SetParam(h) \/ SetClockParam(h)

SpecClock == Start(Pool.Clock, {"ok", "dead"}) /\ [][NextClock]_vars

\* runs on QUIT and EXIT
NextQuit ==
  \E h \in Handlers :
    \/ Conn(h) \/ Loop(h) \/ Build(h) \/ Send(h) \/ Shutdown(h)
    \/ SceneParam(h) \/ UsbGone(h)

SpecQuit == Start(Pool.Quit, {"ok"}) /\ [][NextQuit]_vars

\* runs on the validation of parameters
NextParam ==
  \E h \in Handlers :
    \/ Conn(h) \/ Loop(h) \/ Build(h) \/ Send(h)
    \/ Fs20Addr(h) \/ Fs20Cmd(h) \/ Fs20High(h) \/ UniAddr(h) \/ UniCmd(h)
    \/ ItCode(h) \/ ItAddr(h) \/ SceneParam(h)

SpecParam == Start(Pool.Param, {"ok"}) /\ [][NextParam]_vars

\* runs on the housecode
NextHc ==
  \E h \in Handlers :
    \/ Conn(h) \/ Loop(h) \/ Build(h) \/ Send(h)
    \/ Fs20Addr(h) \/ Fs20Cmd(h) \/ Fs20High(h)
    \/ GetParam(h) \/ GetHousecode(h)
    \/ SetParam(h) \/ SetHousecodeParam(h) \/ SetHousecode(h)

SpecHc == Start(Pool.Hc, {"ok"}) /\ [][NextHc]_vars


\* runs on the characters of FS20 addresses and housecodes
NextFs ==
  \E h \in Handlers :
    \/ Conn(h) \/ Loop(h) \/ Build(h) \/ Send(h)
    \/ Fs20Addr(h) \/ Fs20Cmd(h) \/ Fs20High(h)
    \/ SetParam(h) \/ SetHousecodeParam(h) \/ SetHousecode(h)

SpecFs == Start(Pool.Fs, {"ok", "dead"}) /\ [][NextFs]_vars

\* runs of one connection on the FS20 codec: SET HOUSECODE x decodes x with
\* fs20toi, GET HOUSECODE encodes the result with itofs20
NextCodec ==
  \/ Accept(1) \/ Recv(1) \/ RecvClosed(1) \/ End(1) \/ Close(1)
  \/ Split0(1) \/ SplitN(1) \/ Cmd(1) \/ WriteLock(1) \/ WriteSend(1)
  \/ SetParam(1) \/ SetHousecodeParam(1) \/ SetHousecode(1)
  \/ GetParam(1) \/ GetHousecode(1)

SpecCodec == Start(Pool.Codec, {"ok"}) /\ [][NextCodec]_vars

\* runs on WAIT
NextWait ==
  \E h \in Handlers :
    \/ Conn(h) \/ Loop(h) \/ Build(h) \/ Send(h)
    \/ SceneParam(h) \/ WaitParam(h) \/ WaitEnd(h)

SpecWait == Start(Pool.Wait, {"ok"}) /\ [][NextWait]_vars

NextHttp ==
  \E h \in Handlers :
    Conn(h) \/ Http(h) \/ Loop(h) \/ Build(h) \/ Send(h) \/ SceneParam(h)

SpecHttp == Start(Pool.Http, {"ok"}) /\ [][NextHttp]_vars

NextBad ==
  \E h \in Handlers :
    Conn(h) \/ Http(h) \/ Loop(h) \/ SetParam(h) \/ SetHousecodeParam(h) \/ SetHousecode(h)

SpecBad == Start(Pool.Bad, {"ok"}) /\ [][NextBad]_vars

\* one client at a time
NextEquiv ==
  \/ Accept(1) \/ Recv(1) \/ RecvClosed(1) \/ End(1) \/ Close(1)
  \/ Http(1) \/ Split0(1) \/ SplitN(1) \/ Cmd(1) \/ WriteLock(1) \/ WriteSend(1)
  \/ SceneParam(1) \/ SetParam(1) \/ SetHousecodeParam(1) \/ SetHousecode(1)
  \/ Build(1) \/ UsbLock(1) \/ UsbOutBegin(1) \/ UsbOutEnd(1) \/ UsbUnlock(1)

SpecEquiv == Start(Pool.Equiv, {"ok"}) /\ [][NextEquiv]_vars

\* clients that may be gone when their prompt is written
NextConn == \E h \in Handlers : Conn(h) \/ Http(h) \/ Loop(h) \/ WriteFail(h)

SpecConn == Start(Pool.Conn, {"ok"}) /\ [][NextConn]_vars

\* connections that get the descriptors of closed ones
NextReuse == NextConn \/ \E h \in Handlers : Reaccept(h)

SpecReuse == Start(Pool.Conn, {"ok"}) /\ [][NextReuse]_vars


\* one client at a time
NextAuto ==
  \/ Conn(1) \/ Split0(1) \/ SplitN(1) \/ Cmd(1) \/ WriteLock(1) \/ WriteSend(1)
  \/ Send(1) \/ Reply(1) \/ SetTime(1)
  \/ SetParam(1) \/ SetClockParam(1) \/ GetTime(1) \/ GetTimeEnd(1)

SpecAuto == Start(Pool.Auto, {"ok", "dead"}) /\ [][NextAuto]_vars


\* one client at a time
NextSession ==
  \/ Conn(1) \/ Split0(1) \/ SplitN(1) \/ Cmd(1) \/ WriteLock(1) \/ WriteSend(1)
  \/ SceneParam(1) \/ Build(1) \/ Send(1)
  \/ SetParam(1) \/ SetHousecodeParam(1) \/ SetHousecode(1)
  \/ ItCode(1) \/ ItAddr(1) \/ ItCmd(1) \/ Main
  \/ Fs20Addr(1) \/ Fs20Cmd(1) \/ Fs20High(1) \/ RecvPart(1)

SpecSession == Start(Pool.Session, {"ok"}) /\ [][NextSession]_vars

(***************************************************************************)
(* The properties                                                          *)
(***************************************************************************)
Inside(h, labels) == pc[h] \in labels

\* handler h is inside an interrupt transfer of usb_send
InTransfer(h) == Inside(h, {"usb_out_x", "usb_in_x"})

\* handler h is inside usb_send, past pthread_mutex_lock
InSend(h) == Inside(h, {"usb_out", "usb_out_x", "usb_in", "usb_in_x", "usb_unlock"})

\* handler h is writing the status line of a command
AtStatus(h) == Inside(h, {"w_lock", "w_send"}) /\ th[h].wmsg.kind = "status"

\* C1: for every interleaving of the connection handlers, at most one
\* handler is inside a hardware transfer (the outbound or the inbound
\* interrupt transfer of usb_send) at any time.
C1_OneTransferAtATime == Cardinality({h \in Handlers : InTransfer(h)}) <= 1

\* one handler is inside a transfer while the other one waits for the lock
C1_Witness ==
  \E h, g \in Handlers : h # g /\ InTransfer(h) /\ pc[g] = "usb_lock"

\* C2: during a send that expects a reply the caller owns mutex_usb from the
\* first outbound attempt to the end of the inbound leg, and from its first
\* attempt on the latest transfer on the device is its own: no other
\* handler's transfer comes between the request and the reading of the reply.
C2_LockHeldAcrossLegs ==
  \A h \in Handlers :
    (InSend(h) /\ th[h].fexpectdata) =>
      /\ mutex_usb = h
      /\ (pc[h] # "usb_out" \/ th[h].retry < USB_MAX_RETRY) =>
           (pc[h] = "usb_out_x" /\ th[h].retry = USB_MAX_RETRY) \/ lastXfer = h

\* a handler reads the reply of its request while the other one waits for
\* the lock with a frame of its own
C2_Witness ==
  \E h, g \in Handlers :
    /\ h # g /\ pc[h] = "usb_in_x" /\ th[h].fexpectdata /\ th[h].err = 0
    /\ pc[g] = "usb_lock"

\* C3: if all 5 outbound attempts of usb_send fail, no inbound transfer is
\* attempted, even when a reply is expected: a handler inside the inbound
\* transfer has not recorded an outbound error.
C3_NoInboundAfterFailedOutbound ==
  \A h \in Handlers : pc[h] = "usb_in_x" => th[h].err = 0

\* C4: on a transport whose every transfer attempt fails, GET TEMP makes
\* exactly 5 transfer attempts in total and then reports the error
\* 'USB communication error' in its status line.
C4_FiveAttemptsThenError ==
  \A h \in Handlers :
    (dev = "dead" /\ th[h].fam = "TEMP") =>
      /\ th[h].attempts <= USB_MAX_RETRY
      /\ AtStatus(h) =>
           /\ th[h].attempts = USB_MAX_RETRY
           /\ ~th[h].wmsg.ok
           /\ th[h].wmsg.msg = "USB communication error"

\* the commands of a line: its pieces between the command delimiters
RECURSIVE SplitAt(_, _, _, _)
SplitAt(s, i, cur, acc) ==
  IF i > Len(s)
    THEN IF cur = << >> THEN acc ELSE Append(acc, cur)
    ELSE IF s[i] \in CMD_DELIMITER
           THEN SplitAt(s, i + 1, << >>,
                        IF cur = << >> THEN acc ELSE Append(acc, cur))
           ELSE SplitAt(s, i + 1, Append(cur, s[i]), acc)

Commands(line) == SplitAt(line, 1, << >>, << >>)

IsStatus(m) == m.kind = "status"

\* the status lines handler h has written for its line, in order
Statuses(h) == SelectSeq(out[h], IsStatus)

\* the command texts of a sequence of status lines
Texts(st) == [k \in 1..Len(st) |-> st[k].text]

IsScene(c) == Len(c) > 6 /\ SubSeq(c, 1, 6) = kw.SCENE \o << " " >>

\* the frame a valid SCENE command puts on the device
SceneFrame(c) ==
  [Zero8 EXCEPT ![1] = 15, ![2] = strtol(SubSeq(c, 7, Len(c)))]

\* the frames of the SCENE commands among cs, in order
SceneFrames(cs) ==
  LET sc == SelectSeq(cs, IsScene)
  IN  [k \in 1..Len(sc) |-> SceneFrame(sc[k])]

\* handle_input has returned 0 and handler h is about to write the prompt
AtPrompt(h) == pc[h] = "w_lock" /\ th[h].wmsg.kind = "prompt"

\* C5: a line of n valid device commands run on a transport that never
\* fails has, when its prompt is written, sent exactly n frames, the frames
\* of its commands in left-to-right order, and has written exactly n status
\* lines ending in OK, one per command in the same order.
C5_FramesAndStatusInOrder ==
  \A h \in Handlers :
    (dev = "ok" /\ AtPrompt(h) /\ th[h].input = Line.Scenes) =>
      LET cs == Commands(th[h].input)
          st == Statuses(h)
      IN  /\ sent[h] = SceneFrames(cs)
          /\ Texts(st) = cs
          /\ \A k \in 1..Len(st) : st[k].ok

\* C6: in a multi-command line a command whose send ends in a transport
\* error after the retry budget is reported as an error in its own status
\* line, and every command of a line without QUIT or EXIT, here of a line
\* that is the only one received so far, has been executed and has its
\* status line, in order, when the prompt is written.
C6_FailureReportedLineGoesOn ==
  \A h \in Handlers :
    /\ (AtStatus(h) /\ th[h].err # 0) => ~th[h].wmsg.ok
    /\ (AtPrompt(h) /\ nlines = 1 /\ th[h].input = Line.Clock) =>
         Texts(Statuses(h)) = Commands(th[h].input)

\* the parameter handed to the validation of a command is out of range
BadParam(t) ==
  \/ t.fam = "SCENE" /\ (t.val < 1 \/ t.val > 254)
  \/ t.fam \in {"UNI", "IT"} /\ (t.addr < 1 \/ t.addr > 16)
  \/ t.fam = "FS20" /\ t.isdim /\ (t.val < 0 \/ t.val > 16)

FirstWord(c) ==
  LET e == {i \in 1..Len(c) : c[i] \in TOKEN_DELIMITER}
  IN  IF e = {} THEN c
      ELSE SubSeq(c, 1, (CHOOSE i \in e : \A j \in e : i <= j) - 1)

IsQuit(c) == Is(FirstWord(c), {kw.QUIT, << "Q" >>})
IsExit(c) == Is(FirstWord(c), {kw.EXIT, << "E" >>})

\* the position of the first QUIT or EXIT among cs, 0 if there is none
StopIndex(cs) ==
  LET e == {k \in 1..Len(cs) : IsQuit(cs[k]) \/ IsExit(cs[k])}
  IN  IF e = {} THEN 0 ELSE CHOOSE k \in e : \A j \in e : k <= j

\* handle_input has returned for the line of handler h
Returned(h) ==
  /\ th[h].input # << >>
  /\ \/ pc[h] = "w_lock" /\ th[h].wmsg.kind \in {"prompt", "bye"}
     \/ pc[h] = "end"

\* C8: QUIT (or Q) and EXIT (or E) stop the processing of a line: when
\* handle_input returns for a line, its status lines are those of the
\* commands before the first QUIT or EXIT of the line, in order, no frame of
\* a later command has been sent, and the result is -1 for QUIT and -2 for
\* EXIT.
C8_QuitExitStopTheLine ==
  \A h \in Handlers :
    Returned(h) =>
      LET cs == Commands(th[h].input)
          k  == StopIndex(cs)
      IN  /\ k # 0
          /\ th[h].rc = IF IsQuit(cs[k]) THEN 0 - 1 ELSE 0 - 2
          /\ Texts(Statuses(h)) = SubSeq(cs, 1, k - 1)
          /\ Len(sent[h]) <= Len(SceneFrames(SubSeq(cs, 1, k - 1)))

\* C9: after a successful SET HOUSECODE every GET HOUSECODE writes the
\* string form of the housecode that was set and every FS20 frame built
\* carries it in bytes 1 and 2.
C9_HousecodeSeenByAll ==
  [][\A h \in Handlers :
       /\ (pc[h] = "build" /\ th[h].fam = "FS20" /\ pc'[h] = "usb_lock") =>
            usbcmd'.handle_input[2] * 256 + usbcmd'.handle_input[3] = housecode
       /\ (pc[h] = "get_hc" /\ pc'[h] = "w_lock") =>
            fs20toi(th'[h].wmsg.text) = housecode]_vars

\* C10: in every reachable state the housecode is a 16-bit value.
C10_HousecodeIs16Bit == housecode \in 0..65535

\* a string of even length over '1'..'4'
ValidFs20(s) ==
  /\ Len(s) % 2 = 0
  /\ \A i \in 1..Len(s) : s[i] \in {"1", "2", "3", "4"}

\* the step of handler h reads an FS20 address or a housecode
ReadsFs20(h) ==
  /\ pc[h] \in {"fs20_addr", "set_hc"}
  /\ pc'[h] # pc[h]
  /\ NextTok.tok # NULL

\* C11: an FS20 address or housecode string is accepted only if it has even
\* length and every character is one of '1'..'4': the step of FS20 or of SET
\* HOUSECODE that reads any other string ends in an error status line, so
\* that no frame is sent and the housecode does not change.
C11_OnlyValidFs20Accepted ==
  [][\A h \in Handlers :
       (ReadsFs20(h) /\ ~ValidFs20(Tok(NextTok))) =>
         /\ pc'[h] = "w_lock"
         /\ th'[h].wmsg.kind = "status"
         /\ ~th'[h].wmsg.ok]_vars

\* the string x of a line SET HOUSECODE x;...
HcArg(line) == LET c == Commands(line)[1] IN SubSeq(c, 15, Len(c))

\* C12: for every valid FS20 string x of even length, converting x to an
\* integer with fs20toi (SET HOUSECODE x) and back to a string with itofs20
\* (GET HOUSECODE) yields x again, and no other valid string is converted
\* to the same integer.
C12_CodecRoundTrip ==
  \A h \in Handlers :
    (AtPrompt(h) /\ th[h].input \in Pool.Codec) =>
      LET x == HcArg(th[h].input)
      IN  /\ \E i \in 1..Len(out[h]) :
               out[h][i].kind = "housecode" /\ out[h][i].text = x
          /\ \A l \in Pool.Codec :
               fs20toi(HcArg(l)) = housecode => HcArg(l) = x

\* C13: while a handler is suspended in WAIT it holds neither mutex_usb nor
\* mutex_socks, so that another connection's command that has come to a
\* lock takes it without waiting for the WAIT to end.
C13_WaitHoldsNoLock ==
  \A h \in Handlers :
    pc[h] = "sleep" =>
      /\ mutex_usb # h
      /\ mutex_socks # h
      /\ \A g \in Handlers \ {h} :
           /\ pc[g] = "usb_lock" => ENABLED UsbLock(g)
           /\ pc[g] = "w_lock" => ENABLED WriteLock(g)

\* a handler sleeps in WAIT while the other one, which was waiting at no
\* lock, has transferred its frame
C13_Witness ==
  \E h, g \in Handlers :
    /\ h # g /\ pc[h] = "sleep" /\ th[h].val = 5
    /\ pc[g] = "usb_unlock" /\ mutex_usb = g /\ sent[g] # << >>

(***************************************************************************)
(* HTTP requests                                                           *)
(***************************************************************************)
Written(h) == out[h] \o (IF th[h].wmsg = NoMsg THEN << >> ELSE << th[h].wmsg >>)

\* C14: a line recognised as an HTTP request always ends as handled-as-http
\* (-3): neither a prompt nor "bye" is written for it, whatever its commands
\* were (QUIT and EXIT included) the connection is closed, and the process
\* is not shut down
C14_HttpEndsHandledAsHttp ==
  \A h \in Handlers : IsHttp(th[h].input) =>
    /\ \A i \in 1..Len(Written(h)) : Written(h)[i].kind \notin {"bye", "prompt"}
    /\ pc[h] \in {"end", "close", "dead"} => th[h].rc = 0 - 3
    /\ pc[h] \notin {"recv", "release", "exit"}
    /\ pc[h] = "dead" => h \notin socks
    /\ proc # "exit"

C14_Witness ==
  \E h \in Handlers :
    /\ th[h].input = Line.HttpExit
    /\ pc[h] = "dead"
    /\ th[h].rc = 0 - 3
    /\ out[h][Len(out[h])].kind = "htmlfoot"
    /\ proc = "run"

\* s has the word w in it, letters of s in either case
Contains(s, w) ==
  \E i \in 1..(Len(s) - Len(w) + 1) :
    \A k \in 1..Len(w) : tolower(s[i + k - 1]) = w[k]

\* an HTTP request whose path has no "/cmd=" in it, or that has no path
BadReq(s) == IsHttp(s) /\ ~Contains(HttpPath(s).str, http.CMD)

Kinds(ms) == [i \in 1..Len(ms) |-> ms[i].kind]

\* C15: an HTTP request without "/cmd=" in its path (or without a path) is
\* answered with the 400 response and nothing else, and its handler never
\* comes to the command loop: it sends no frame and does not come to the
\* step that stores a housecode
C15_BadRequestRunsNothing ==
  \A h \in Handlers : BadReq(th[h].input) =>
    /\ pc[h] \in {"http", "w_lock", "w_send", "end", "close", "dead"}
    /\ th[h].depth = 0
    /\ sent[h] = << >>
    /\ out[h] # << >> => out[h][1].kind = "http400"
    /\ pc[h] \in {"end", "close", "dead"} => Kinds(out[h]) = Kinds(BadRequest)

C15_Witness ==
  \E h \in Handlers :
    /\ th[h].input = Line.HttpNoCmd
    /\ pc[h] = "dead"
    /\ Kinds(out[h]) = Kinds(BadRequest)
    /\ housecode = fs20toi(<< "1", "2", "3", "4" >>)

\* a request, the line it stands for, and what running that line does: the
\* frames it sends, the success of each of its commands, the housecode it sets
\* (hc, when sets)
Equiv ==
  { [http |-> Line.HttpScenes, plain |-> Line.Scenes,
     frames |-> SceneFrames(Commands(Line.Scenes)), oks |-> << TRUE, TRUE >>,
     sets |-> FALSE, hc |-> 0],
    [http |-> Line.HttpBadScene, plain |-> Line.BadScene,
     frames |-> << >>, oks |-> << FALSE >>, sets |-> FALSE, hc |-> 0],
    [http |-> Line.HttpHc, plain |-> Line.SetHc,
     frames |-> << >>, oks |-> << TRUE >>, sets |-> TRUE,
     hc |-> fs20toi(<< "1", "2", "3", "4" >>)] }

Oks(st) == [k \in 1..Len(st) |-> st[k].ok]

\* handle_input has returned for the line of h: the prompt is about to be
\* written, or the request is answered
Done(h) == AtPrompt(h) \/ (pc[h] = "end" /\ th[h].rc = 0 - 3)

\* C16: with one client at a time, a line without QUIT or EXIT and the
\* request GET /cmd=<the line, url-encoded> do the same: when handle_input
\* has returned, the same frames have been sent in the same order and the
\* same commands have the same success or failure, and the housecode is
\* changed during the one exactly as during the other
C16_HttpSameAsPlain ==
  [][\A e \in Equiv : th[1].input \in {e.http, e.plain} =>
       /\ Done(1)' => /\ sent'[1] = e.frames
                      /\ Texts(Statuses(1))' = Commands(e.plain)
                      /\ Oks(Statuses(1))' = e.oks
       /\ housecode' # housecode => e.sets /\ housecode' = e.hc]_vars

C16_Witness ==
  /\ th[1].input = Line.HttpScenes
  /\ pc[1] = "end"
  /\ th[1].rc = 0 - 3
  /\ sent[1] = SceneFrames(Commands(Line.Scenes))
  /\ Len(Statuses(1)) = 2

(***************************************************************************)
(* The life of a connection                                                *)
(***************************************************************************)
\* the last write of tcp_server_handle_client for a line
Farewell(h) ==
  pc[h] \in {"w_lock", "w_send"} /\ th[h].wmsg.kind \in {"prompt", "bye"}

\* handle_input is running for handler h
Dispatching(h) ==
  /\ pc[h] \notin {"idle", "recv", "end", "close", "release", "exit", "dead"}
  /\ ~Farewell(h)

\* C17: what a handler does after a line is fixed by what handle_input
\* returned: 0 - it writes the prompt and then reads again (or closes, if
\* the client is gone); -1 - it writes "bye" and then closes; -3 - it closes
\* and writes nothing; a read that ends the stream or fails - it closes.
\* Closing takes the connection out of socks, and a handler that has closed
\* never reads, writes or dispatches again.
C17_NextStepByOutcome ==
  [][\A h \in Handlers :
       /\ (Dispatching(h) /\ ~Dispatching(h)') =>
            /\ th'[h].rc >= 0 =>
                 /\ pc'[h] = "w_lock"
                 /\ th'[h].wmsg.kind = "prompt" /\ th'[h].wret = "recv"
            /\ th'[h].rc = 0 - 1 =>
                 /\ pc'[h] = "w_lock"
                 /\ th'[h].wmsg.kind = "bye" /\ th'[h].wret = "end"
            /\ th'[h].rc = 0 - 3 => pc'[h] = "end"
       /\ (Farewell(h) /\ pc[h] = "w_lock") =>
            /\ pc'[h] \in {"w_lock", "w_send"}
            /\ th'[h].wmsg = th[h].wmsg
       /\ (Farewell(h) /\ pc[h] = "w_send" /\ pc'[h] # "w_send") =>
            IF th[h].wmsg.kind = "prompt"
              THEN pc'[h] \in {"recv", "end"}
              ELSE pc'[h] = "end"
       /\ (pc[h] = "recv" /\ pc'[h] # "recv") =>
            \/ Dispatching(h)'
            \/ pc'[h] = "end" /\ th'[h].rc = 0
       /\ pc[h] = "end" =>
            \/ pc'[h] = "end"
            \/ pc'[h] = "close" /\ h \notin socks'
       /\ (pc[h] = "close" /\ th[h].rc # 0 - 2) => pc'[h] \in {"close", "dead"}
       /\ pc[h] = "dead" =>
            /\ pc'[h] = "dead" /\ h \notin socks'
            /\ th'[h] = th[h] /\ out'[h] = out[h] /\ sent'[h] = sent[h]]_vars

C17_Witness ==
  \E h, g \in Handlers :
    /\ pc[h] = "dead" /\ th[h].rc = 0 - 1
    /\ out[h] # << >> /\ out[h][Len(out[h])].kind = "bye"
    /\ h \notin socks
    /\ pc[g] = "w_send" /\ th[g].wmsg.kind = "prompt"

(***************************************************************************)
(* EXIT                                                                    *)
(***************************************************************************)
\* C18: the process ends on EXIT only when the handle is released and no
\* handler is inside usb_send, and once the handle is released no handler
\* is inside a transfer on it
C18_ExitAfterSendsAndRelease ==
  /\ proc = "exit" =>
       /\ handle = "released"
       /\ \A g \in Handlers : ~InSend(g)
  /\ handle = "released" => \A g \in Handlers : ~InTransfer(g)

(***************************************************************************)
(* mutex_socks                                                             *)
(***************************************************************************)
\* C19: while a handler is inside send() to its client, the accept loop can
\* still register a connection that has come in
C19_AcceptNeverWaitsOnClient ==
  \A h, g \in Handlers :
    (proc = "run" /\ pc[h] = "w_send" /\ pc[g] = "idle") => ENABLED Accept(g)

\* C20: while handler a is inside send() to its client, handler b, which has
\* come to a write to its own client, can go on into it
C20_WritesAreIndependent ==
  \A a, b \in Handlers :
    (proc = "run" /\ a # b /\ pc[a] = "w_send" /\ pc[b] = "w_lock") =>
      ENABLED WriteLock(b)

(***************************************************************************)
(* SET CLOCK                                                               *)
(***************************************************************************)
IsPrefix(s, t) == Len(s) <= Len(t) /\ s = SubSeq(t, 1, Len(s))

\* the three frames of set_time for a time ti
ClockFrames(ti) ==
  << TimeFrame(ti), [Zero8 EXCEPT ![3] = 13], << 6, 2, 1, 2, 0, 0, 0, 0 >> >>

\* C21: SET CLOCK, here in the only line received so far, has sent its
\* three frames in order, each one only after the one before it was sent,
\* when its status line is written; the status is OK exactly when all three
\* were sent, and otherwise the error is "USB communication error"
C21_SetClockAllOrError ==
  \A h \in Handlers :
    (AtStatus(h) /\ nlines = 1 /\ th[h].wmsg.text = Commands(Line.Clock)[1]) =>
      /\ IsPrefix(sent[h], ClockFrames(th[h].timeinfo))
      /\ th[h].wmsg.ok <=> Len(sent[h]) = 3
      /\ ~th[h].wmsg.ok => th[h].wmsg.msg = "USB communication error"

\* C22: SET CLOCK AUTO, here in the only line received so far, comes to the
\* probe read only after the three frames of the probe write were sent, to
\* the adjusted write only after the probe read was sent too, and its status
\* is OK exactly when all seven frames were sent; otherwise the one error is
\* "USB communication error"
C22_AutoStopsAtFirstFailure ==
  \A h \in Handlers :
    (nlines = 1 /\ th[h].input = Line.Auto) =>
      /\ pc[h] = "gt" => Len(sent[h]) = 3
      /\ (pc[h] = "st1" /\ th[h].sret = "set") => Len(sent[h]) = 4
      /\ AtStatus(h) =>
           /\ th[h].wmsg.ok <=> Len(sent[h]) = 7
           /\ ~th[h].wmsg.ok => th[h].wmsg.msg = "USB communication error"

(***************************************************************************)
(* The session of a client                                                 *)
(***************************************************************************)
\* a command of blanks only
IsBlank(c) == \A k \in 1..Len(c) : isspace(c[k])

NotBlank(c) == ~IsBlank(c)

\* C23: a command that is empty or all blanks is skipped without a trace:
\* when the prompt of 'SCENE 5;   ;SCENE 6' is written, the status lines are
\* those of the two SCENE commands, nothing else was written, and the two
\* frames were sent
C23_BlankCommandSkipped ==
  \A h \in Handlers :
    (AtPrompt(h) /\ th[h].input = Line.Blank) =>
      /\ Texts(out[h]) = SelectSeq(Commands(Line.Blank), NotBlank)
      /\ \A k \in 1..Len(out[h]) : out[h][k].kind = "status"
      /\ sent[h] = SceneFrames(Commands(Line.Blank))

\* C24: QUIET holds for the connection until VERBOSE.  With one client and
\* no VERBOSE in its lines, the housecode 1234 is there only once the line
\* 'QUIET;SET HOUSECODE 1234' has been executed, QUIET first: from then on
\* the handler writes no status line, not for a command of that line and
\* not for a command of a later line
C24_QuietHoldsForTheSession ==
  \A h \in Handlers :
    housecode = fs20toi(<< "1", "2", "3", "4" >>) =>
      \A k \in 1..Len(Written(h)) : Written(h)[k].kind # "status"

(***************************************************************************)
(* The frame buffer                                                        *)
(***************************************************************************)
\* C25: the frame of a command is its own: the bytes that handler h hands
\* to the outbound transfer from the buffer of handle_input are the bytes
\* its command wrote into the zeroed buffer, and the bytes GET TEMP decodes
\* after a send that succeeded are a reply of the device
C25_FrameOwnedByItsCommand ==
  \A h \in Handlers :
    /\ (pc[h] = "usb_out_x" /\ th[h].buf = "handle_input") =>
         usbcmd.handle_input = Frame(th[h], Zero8)
    /\ (pc[h] = "temp" /\ th[h].err = 0) => usbcmd.handle_input \in Replies

(***************************************************************************)
(* The housecode and its readers                                           *)
(***************************************************************************)
\* the two housecode bytes of the FS20 frame for the housecode v
HcBytes(v) == << Byte(v \div 256), v % 256 >>

\* C26: the housecode bytes of an FS20 frame handed to the transport are
\* the two bytes of one housecode: of the housecode at the start, or of one
\* that a line of the run sets
C26_HousecodeReadWhole ==
  \A h \in Handlers :
    (pc[h] = "usb_lock" /\ th[h].fam = "FS20") =>
      << usbcmd.handle_input[2], usbcmd.handle_input[3] >> \in
        { HcBytes(0), HcBytes(fs20toi(HcArg(Line.Hc))), HcBytes(fs20toi(HcArg(Line.WideHc))) }

\* C27: an IT command whose code letter is not one of A..P ends with an
\* error and hands no frame to the transport: the code of every IT frame is
\* within 0..15, and its second byte is code * 16 + (addr - 1)
C27_ItCodeWithinAToP ==
  \A h \in Handlers :
    (pc[h] = "usb_lock" /\ th[h].fam = "IT") =>
      /\ th[h].code \in 0..15
      /\ usbcmd.handle_input[2] = th[h].code * 16 + (th[h].addr - 1)

(***************************************************************************)
(* The end of the process                                                  *)
(***************************************************************************)
\* C28: when the process has ended, after one-shot execution or after EXIT,
\* the transport handle it had opened has been released
C28_ReleasedBeforeTheProcessEnds == proc = "exit" => handle = "released"

(***************************************************************************)
(* A write that fails                                                      *)
(***************************************************************************)
\* C29: after a write to its client has failed, a handler takes no further
\* command of the line
C29_NoCommandAfterWriteFailure ==
  [][\A h \in Handlers :
       (th[h].wfail /\ pc[h] = "cmd") => th'[h].cmdexec = << >>]_vars

(***************************************************************************)
(* Operations of several frames                                            *)
(***************************************************************************)
\* C30: while a handler is between the first and the third frame of a
\* set_time, no other handler is inside a hardware transfer
C30_ClockFramesNotInterleaved ==
  \A h, g \in Handlers :
    (h # g /\ th[h].buf = "set_time" /\ th[h].err = 0 /\ Len(sent[h]) \in {1, 2}) =>
      ~InTransfer(g)

Legs(h) == IF th[h].fexpectdata THEN 2 ELSE 1

\* C32: a transfer attempt is made only while the leg has budget left and
\* has not succeeded, so a leg makes 1 to USB_MAX_RETRY attempts and ends
\* with its first success; usb_send waits after an attempt exactly when
\* another attempt of the leg follows; when the outbound leg ends the result
\* is success exactly if its last attempt succeeded, and when the inbound
\* leg ends the result is success exactly if its last attempt succeeded and
\* the outbound leg had ended with success
C32_AttemptsWaitsAndResult ==
  [][\A h \in Handlers :
       LET round == IF pc[h] = "usb_out_x" THEN "usb_out" ELSE "usb_in"
       IN  /\ (pc[h] \in {"usb_out_x", "usb_in_x"} /\ pc'[h] # pc[h]) =>
                /\ th[h].retry \in 1..USB_MAX_RETRY /\ th[h].ret # 0
                /\ th'[h].attempts = th[h].attempts + 1
                /\ th'[h].waits = th[h].waits + (IF pc'[h] = round THEN 1 ELSE 0)
                /\ pc'[h] = round => (th'[h].ret # 0 /\ th'[h].retry > 0)
                /\ pc'[h] # round =>
                     \/ th[h].retry = 1
                     \/ IF pc[h] = "usb_out_x" THEN Len(sent'[h]) = Len(sent[h]) + 1
                                               ELSE th'[h].ret = 0
           /\ (pc[h] = "usb_out_x" /\ pc'[h] \in {"usb_in", "usb_unlock"}) =>
                /\ th'[h].attempts \in 1..USB_MAX_RETRY
                /\ th'[h].waits = th'[h].attempts - 1
                /\ th'[h].err = 0 <=> Len(sent'[h]) = Len(sent[h]) + 1
           /\ (pc[h] = "usb_in_x" /\ pc'[h] = "usb_unlock") =>
                /\ th'[h].attempts \in 2..(2 * USB_MAX_RETRY)
                /\ th'[h].waits = th'[h].attempts - Legs(h)
                /\ th'[h].err = 0 <=> (th'[h].ret = 0 /\ th[h].err = 0)]_vars

C32_Witness ==
  \E h \in Handlers :
    /\ dev = "flaky" /\ pc[h] = "usb_unlock" /\ th[h].fexpectdata
    /\ th[h].ret = 0 /\ th[h].err # 0
    /\ th[h].attempts = USB_MAX_RETRY + 2 /\ th[h].waits = USB_MAX_RETRY

(***************************************************************************)
(* The <cmd> of FS20                                                       *)
(***************************************************************************)
\* C33: the line "FS20 1111 FOO", whose <cmd> is neither a keyword nor a
\* number, builds and sends no frame, and its status line reports the error
\* "unknown <cmd> parameter"
C33_UnknownFs20CmdRejected ==
  \A h \in Handlers :
    th[h].input = Line.Fs20Foo =>
      /\ pc[h] # "build" /\ sent[h] = << >>
      /\ AtStatus(h) => /\ ~th[h].wmsg.ok
                        /\ th[h].wmsg.msg = "unknown <cmd> parameter"

(***************************************************************************)
(* The two locks                                                           *)
(***************************************************************************)
\* C34: no handler owns mutex_usb and mutex_socks at the same time, and a
\* handler that owns one of them is not waiting for the other (usb_send and
\* usb_release wait for mutex_usb, write_to_client and
\* tcp_server_handle_client_end for mutex_socks), so no two handlers wait
\* for each other's lock
C34_LocksNeverNested ==
  \A h \in Handlers :
    /\ ~(mutex_usb = h /\ mutex_socks = h)
    /\ mutex_usb = h => pc[h] \notin {"w_lock", "end"}
    /\ mutex_socks = h => pc[h] \notin {"usb_lock", "release"}

C34_Witness ==
  \E h, g \in Handlers :
    /\ h # g /\ mutex_usb = h /\ mutex_socks = g
    /\ InTransfer(h) /\ pc[g] = "w_send"

C36_CmdsIndexInRange ==
  \A h \in Handlers : Len(th[h].cmds) <= MAX_CMDS

(***************************************************************************)
(* The receive buffer                                                      *)
(***************************************************************************)
\* C37: whatever the reads that assemble a line, recbuffer stores at most
\* len = INPUT_BUFFER_MAXLEN bytes: the bytes received so far (slen) never
\* exceed the size of the buffer
C37_RecbufferWithinLen ==
  \A h \in Handlers : th[h].slen <= INPUT_BUFFER_MAXLEN

(***************************************************************************)
(* The set of connections                                                  *)
(***************************************************************************)
\* the connection of handler h is open and its handler has not yet removed it
Tracked(h) == pc[h] \notin {"idle", "close", "dead", "release", "exit"}

\* C38: socks changes only in a step that takes the free mutex_socks and
\* gives it back; a connection leaves the set before it is closed; and the
\* set holds exactly the open connections whose handlers run, also when a
\* new connection has the descriptor of a closed one
C38_SocksTracksOpenConnections ==
  /\ [](\A h \in Handlers : h \in socks <=> Tracked(h))
  /\ [][socks' # socks => mutex_socks = 0 /\ mutex_socks' = 0]_vars
  /\ [][\A h \in Handlers : pc'[h] = "dead" /\ pc[h] # "dead" => h \notin socks]_vars

C38_Witness ==
  \E h, g \in Handlers :
    /\ h # g
    /\ pc[h] = "recv" /\ th[h].input = << >> /\ out[h] # << >> /\ h \in socks
    /\ pc[g] = "close" /\ g \notin socks
====
